---- MODULE Spec2Model ----
(***************************************************************************)
(* ProjectViewer (project-viewer script of the portfolio template).        *)
(*                                                                         *)
(* Five parts of the class are modelled here:                              *)
(*   - initImageZoom / updateImageTransform / toggleImageFullscreen: the   *)
(*     zoom-pan-fullscreen closure state kept per zoomable image;          *)
(*   - setupModelViewers / addModelControls: the load and error listeners  *)
(*     and the control buttons of a model-viewer element;                  *)
(*   - setupCodeTabs: the click listener of the tab buttons;               *)
(*   - setupCollapsibleSections: the in-place rewrite of h2/h3 headings    *)
(*     into nested <details> widgets;                                      *)
(*   - init: the order of the setup calls and what an exception in one of  *)
(*     them does to the calls after it.                                    *)
(*                                                                         *)
(* Numbers: scale is a JavaScript double in the source.  In the viewport   *)
(* variables it is an exact rational <<numerator, denominator>> in lowest  *)
(* terms, which leaves the rounding of IEEE-754 arithmetic out; the        *)
(* factors and the order of multiply and clamp are as in the code.  The    *)
(* last part of the module follows one image with scale as a binary64      *)
(* double, rounding included, for what depends on the rounding.            *)
(***************************************************************************)
EXTENDS Integers, Sequences, FiniteSets, TLC

VARIABLES
    \* ---- initImageZoom closure state, one entry per zoomable image
    imgs,               \* the images initImageZoom was called for
    scale,              \* let scale      (rational)
    panning,            \* let panning
    pointX, pointY,     \* let pointX, pointY
    start,              \* let start = {x, y}
    cursor,             \* img.style.cursor   ("" = never set)
    transform,          \* img.style.transform (<<>> = never set, else <<x, y, scale>>)
    \* ---- platform fullscreen state
    fullscreenElement,  \* document.fullscreenElement (0 = null, else the image whose container
                        \* it is, or the model-viewer)
    fsPending,          \* fullscreen promises not yet settled
    logged,             \* console.error lines written by the handler that ran last
    unhandled,          \* the handler that ran last left a rejected promise without a handler
    \* ---- history of the viewport (not program state)
    last,               \* the event handled last: [op, img, x, y]
    zrun,               \* per image: the run of equal zoom clicks since scale was 1
    press,              \* per image: pointer position and offset at the last mousedown
    wpair,              \* per image: progress of a wheel-up, wheel-down pair
    \* ---- document tree under .project-description-content; node 1 is the
    \*      container, a node is its index in these sequences
    tag,                \* tagName in lower case, "#text" for a text node
    text,               \* own text of a heading, summary or text node
    kids,               \* childNodes, in order
    parent,             \* parentNode (0 = none: the container, or a removed node)
    isOpen,             \* details.open
    runs,               \* how many times setupCollapsibleSections has run
    \* ---- history of the last run (not program state)
    before,             \* the tree when the run began
    hdrs,               \* const headers
    made,               \* header -> the details element that replaced it
    stops,              \* header -> the sibling that ended its scan (0 = none)
    \* ---- model-viewer elements (setupModelViewers)
    mods,               \* the model-viewer elements of the page
    loaded,             \* viewer.classList contains 'loaded'
    display,            \* viewer.style.display ("" = never set)
    errorPanels,        \* .model-error panels appended to viewer.parentElement
    panelText,          \* the innerHTML those panels were given
    autoRotate,         \* viewer has the attribute auto-rotate
    rotateActive,       \* the rotate button's classList contains 'active'
    commands,           \* the calls made on the viewer so far
    fired,              \* history: the load / error events the viewer has fired
    \* ---- code tabs (setupCodeTabs)
    tabButtons,         \* button -> its data-tab
    tabContents,        \* element id -> is it a .tab-content (ids without an element are absent)
    btnActive,          \* the buttons whose classList contains 'active'
    elActive,           \* the ids of the elements whose classList contains 'active'
    clicked,            \* history: the tab button clicked last (0 = none) and whether its handler threw
    \* ---- init(): the calls the constructor makes
    pc,                 \* the setup method init() calls next ("returned", "thrown": init is over)
    mediumZoom,         \* the global mediumZoom of the page
    \* ---- a second run of the model-viewer controls, on a tree of its own
    twin,               \* that run's tree and the calls it made
    \* ---- the closure of one image with scale as a binary64 double
    dbl                 \* scale, pointX, pointY and the last two events handled

vvars == <<imgs, scale, panning, pointX, pointY, start, cursor, transform,
           fullscreenElement, fsPending, logged, unhandled, last, zrun, press, wpair>>
fvars == <<tag, text, kids, parent, isOpen, runs, before, hdrs, made, stops>>
mvars == <<mods, loaded, display, errorPanels, panelText, autoRotate, rotateActive, commands, fired>>
tvars == <<tabButtons, tabContents, btnActive, elActive, clicked>>
ivars == <<pc, mediumZoom>>
wvars == <<twin>>
dvars == <<dbl>>
vars  == <<vvars, fvars, mvars, tvars, ivars, wvars, dvars>>

----------------------------------------------------------------------------
(* Bounds of the model *)

MaxCoord    == 1          \* pointer positions are (k, 2k) for k in 0..MaxCoord
MaxOff      == 1          \* pan offsets explored: -MaxOff..MaxOff on each axis
MaxRun      == 10         \* longest run of equal zoom clicks counted from scale 1
MaxMag      == 100        \* largest numerator/denominator of a scale, except on a
                          \* run of equal zoom clicks from scale 1 (followed to MaxRun)
MaxPending  == 1          \* fullscreen promises in flight

\* clientX/clientY of the pointer events explored: points of a sloped line, so
\* that the two axes always carry different values
Points == {<<k, 2 * k>> : k \in 0..MaxCoord}

----------------------------------------------------------------------------
(* Exact rational arithmetic standing in for the doubles of the source *)

RECURSIVE GCD(_, _)
GCD(a, b) == IF b = 0 THEN a ELSE GCD(b, a % b)

Norm(n, d) == LET g == GCD(n, d) IN <<n \div g, d \div g>>

RMul(a, b) == Norm(a[1] * b[1], a[2] * b[2])
RDiv(a, b) == Norm(a[1] * b[2], a[2] * b[1])
RLe(a, b)  == a[1] * b[2] <= b[1] * a[2]
RLt(a, b)  == a[1] * b[2] < b[1] * a[2]
RMin(a, b) == IF RLe(a, b) THEN a ELSE b      \* Math.min
RMax(a, b) == IF RLe(a, b) THEN b ELSE a      \* Math.max

RECURSIVE RPow(_, _)
RPow(a, k) == IF k = 0 THEN <<1, 1>> ELSE RMul(a, RPow(a, k - 1))

One       == <<1, 1>>     \* let scale = 1
ZoomStep  == <<6, 5>>     \* 1.2
WheelUp   == <<11, 10>>   \* 1.1
WheelDown == <<9, 10>>    \* 0.9
MinScale  == <<1, 2>>     \* 0.5
MaxScale  == <<5, 1>>     \* 5

Small(r, m) == r[1] <= m /\ r[2] <= m

----------------------------------------------------------------------------
(* initImageZoom: the click handler of the zoom controls *)

\* mutants of the three scale computations
ZoomOutScale_NoClamp(s) == RDiv(s, ZoomStep)
ZoomOutScale_Times(s)  == RMax(RMul(s, <<4, 5>>), MinScale)
WheelDelta_Typo(deltaY) == IF deltaY > 0 THEN <<4, 5>> ELSE WheelUp

ZoomInScale(s)  == RMin(RMul(s, ZoomStep), MaxScale)
ZoomOutScale(s) == RMax(RDiv(s, ZoomStep), MinScale)
WheelDelta(deltaY) == IF deltaY > 0 THEN WheelDown ELSE WheelUp
WheelScale(s, deltaY) == RMin(RMax(RMul(s, WheelDelta(deltaY)), MinScale), MaxScale)

\* updateImageTransform(img, scale, x, y): the cursor it leaves
TransformCursor(s) == IF RLt(One, s) THEN "grab" ELSE "default"

NoLog == <<>>

Ev(op, i, x, y) == [op |-> op, img |-> i, x |-> x, y |-> y]

\* History: zrun counts the zoom clicks of one direction made in a row since the
\* scale was 1 (dir "both", k 0: the scale is 1 and no click was made yet).
NoRun == [dir |-> "none", k |-> 0]
RunReset(s) == IF s = One THEN [dir |-> "both", k |-> 0] ELSE NoRun
RunAfter(r, d, s) ==
    IF r.dir \in {"both", d} THEN [dir |-> d, k |-> r.k + 1] ELSE RunReset(s)
\* History: wpair follows a wheel event with deltaY < 0 (n = 1, s0 the scale
\* before it) directly followed by one with deltaY > 0 (n = 2).
NoPair == [n |-> 0, s0 |-> One]
PairAfter(w, deltaY, s) ==
    IF deltaY < 0 THEN [n |-> 1, s0 |-> s]
    ELSE IF deltaY > 0 /\ w.n = 1 THEN [n |-> 2, s0 |-> w.s0]
    ELSE NoPair
RunOpen(r, d) == r.dir \in {"both", d} => r.k < MaxRun

ZoomIn(i) ==
    LET s == ZoomInScale(scale[i]) IN
    /\ i \in imgs
    /\ Small(s, MaxMag) \/ zrun[i].dir \in {"both", "in"}
    /\ RunOpen(zrun[i], "in")
    /\ scale' = [scale EXCEPT ![i] = s]
    /\ transform' = [transform EXCEPT ![i] = <<pointX[i], pointY[i], s>>]
    /\ cursor' = [cursor EXCEPT ![i] = TransformCursor(s)]
    /\ last' = Ev("zoom-in", i, 0, 0)
    /\ zrun' = [zrun EXCEPT ![i] = RunAfter(@, "in", s)]
    /\ wpair' = [wpair EXCEPT ![i] = NoPair]
    /\ logged' = NoLog
    /\ unhandled' = FALSE
    /\ UNCHANGED <<fvars, mvars, tvars, ivars, wvars, dvars>>
    /\ UNCHANGED <<imgs, panning, pointX, pointY, start, fullscreenElement, fsPending, press>>

ZoomOut(i) ==
    LET s == ZoomOutScale(scale[i]) IN
    /\ i \in imgs
    /\ Small(s, MaxMag) \/ zrun[i].dir \in {"both", "out"}
    /\ RunOpen(zrun[i], "out")
    /\ scale' = [scale EXCEPT ![i] = s]
    /\ transform' = [transform EXCEPT ![i] = <<pointX[i], pointY[i], s>>]
    /\ cursor' = [cursor EXCEPT ![i] = TransformCursor(s)]
    /\ last' = Ev("zoom-out", i, 0, 0)
    /\ zrun' = [zrun EXCEPT ![i] = RunAfter(@, "out", s)]
    /\ wpair' = [wpair EXCEPT ![i] = NoPair]
    /\ logged' = NoLog
    /\ unhandled' = FALSE
    /\ UNCHANGED <<fvars, mvars, tvars, ivars, wvars, dvars>>
    /\ UNCHANGED <<imgs, panning, pointX, pointY, start, fullscreenElement, fsPending, press>>

\* mutant: reset that forgets pointY
ResetView_KeepsY(i) ==
    /\ i \in imgs
    /\ scale' = [scale EXCEPT ![i] = One]
    /\ pointX' = [pointX EXCEPT ![i] = 0]
    /\ transform' = [transform EXCEPT ![i] = <<0, pointY[i], One>>]
    /\ cursor' = [cursor EXCEPT ![i] = TransformCursor(One)]
    /\ last' = Ev("reset", i, 0, 0)
    /\ zrun' = [zrun EXCEPT ![i] = RunReset(One)]
    /\ wpair' = [wpair EXCEPT ![i] = NoPair]
    /\ logged' = NoLog
    /\ unhandled' = FALSE
    /\ UNCHANGED <<fvars, mvars, tvars, ivars, wvars, dvars>>
    /\ UNCHANGED <<imgs, panning, pointY, start, fullscreenElement, fsPending, press>>

\* mutant: reset that also ends the pan
ResetView_EndsPan(i) ==
    /\ i \in imgs
    /\ scale' = [scale EXCEPT ![i] = One]
    /\ pointX' = [pointX EXCEPT ![i] = 0]
    /\ pointY' = [pointY EXCEPT ![i] = 0]
    /\ transform' = [transform EXCEPT ![i] = <<0, 0, One>>]
    /\ cursor' = [cursor EXCEPT ![i] = TransformCursor(One)]
    /\ last' = Ev("reset", i, 0, 0)
    /\ zrun' = [zrun EXCEPT ![i] = RunReset(One)]
    /\ wpair' = [wpair EXCEPT ![i] = NoPair]
    /\ logged' = NoLog
    /\ unhandled' = FALSE
    /\ UNCHANGED <<fvars, mvars, tvars, ivars, wvars, dvars>>
    /\ panning' = [panning EXCEPT ![i] = FALSE]
    /\ UNCHANGED <<imgs, start, fullscreenElement, fsPending, press>>

\* mutant: the reset also forgets where the pan began
ResetView_ClearsStart(i) ==
    /\ i \in imgs
    /\ scale' = [scale EXCEPT ![i] = One]
    /\ pointX' = [pointX EXCEPT ![i] = 0]
    /\ pointY' = [pointY EXCEPT ![i] = 0]
    /\ start' = [start EXCEPT ![i] = [x |-> 0, y |-> 0]]
    /\ transform' = [transform EXCEPT ![i] = <<0, 0, One>>]
    /\ cursor' = [cursor EXCEPT ![i] = TransformCursor(One)]
    /\ last' = Ev("reset", i, 0, 0)
    /\ zrun' = [zrun EXCEPT ![i] = RunReset(One)]
    /\ wpair' = [wpair EXCEPT ![i] = NoPair]
    /\ logged' = NoLog
    /\ unhandled' = FALSE
    /\ UNCHANGED <<fvars, mvars, tvars, ivars, wvars, dvars>>
    /\ UNCHANGED <<imgs, panning, fullscreenElement, fsPending, press>>

\* mutant: scale and offset are shared by the images of the page
ResetView_All(i) ==
    /\ i \in imgs
    /\ scale' = [j \in imgs |-> One]
    /\ pointX' = [j \in imgs |-> 0]
    /\ pointY' = [j \in imgs |-> 0]
    /\ transform' = [transform EXCEPT ![i] = <<0, 0, One>>]
    /\ cursor' = [cursor EXCEPT ![i] = TransformCursor(One)]
    /\ last' = Ev("reset", i, 0, 0)
    /\ zrun' = [j \in imgs |-> RunReset(One)]
    /\ wpair' = [wpair EXCEPT ![i] = NoPair]
    /\ logged' = NoLog
    /\ unhandled' = FALSE
    /\ UNCHANGED <<fvars, mvars, tvars, ivars, wvars, dvars>>
    /\ UNCHANGED <<imgs, panning, start, fullscreenElement, fsPending, press>>

ResetView(i) ==
    /\ i \in imgs
    /\ scale' = [scale EXCEPT ![i] = One]
    /\ pointX' = [pointX EXCEPT ![i] = 0]
    /\ pointY' = [pointY EXCEPT ![i] = 0]
    /\ transform' = [transform EXCEPT ![i] = <<0, 0, One>>]
    /\ cursor' = [cursor EXCEPT ![i] = TransformCursor(One)]
    /\ last' = Ev("reset", i, 0, 0)
    /\ zrun' = [zrun EXCEPT ![i] = RunReset(One)]
    /\ wpair' = [wpair EXCEPT ![i] = NoPair]
    /\ logged' = NoLog
    /\ unhandled' = FALSE
    /\ UNCHANGED <<fvars, mvars, tvars, ivars, wvars, dvars>>
    /\ UNCHANGED <<imgs, panning, start, fullscreenElement, fsPending, press>>

\* mutant: the fullscreen button also resets the scale
ToggleFullscreen_Resets(i) ==
    /\ i \in imgs
    /\ fsPending' = Append(fsPending,
                           IF fullscreenElement = 0 THEN <<"enter", i>> ELSE <<"exit", 0>>)
    /\ last' = Ev("fullscreen", i, 0, 0)
    /\ wpair' = [j \in imgs |-> NoPair]
    /\ logged' = NoLog
    /\ unhandled' = FALSE
    /\ UNCHANGED <<fvars, mvars, tvars, ivars, wvars, dvars>>
    /\ scale' = [scale EXCEPT ![i] = One]
    /\ UNCHANGED <<imgs, panning, pointX, pointY, start, cursor, transform,
                   fullscreenElement, zrun, press>>

\* mutant: a toggle made while a request is pending counts that request as granted
ToggleFullscreen_Serialized(i) ==
    /\ i \in imgs
    /\ fsPending' = Append(fsPending,
                           IF fullscreenElement = 0 /\ fsPending = <<>> THEN <<"enter", i>> ELSE <<"exit", 0>>)
    /\ last' = Ev("fullscreen", i, 0, 0)
    /\ wpair' = [j \in imgs |-> NoPair]
    /\ logged' = NoLog
    /\ unhandled' = FALSE
    /\ UNCHANGED <<fvars, mvars, tvars, ivars, wvars, dvars>>
    /\ UNCHANGED <<imgs, scale, panning, pointX, pointY, start, cursor, transform,
                   fullscreenElement, zrun, press>>

\* case 'fullscreen': toggleImageFullscreen(img.parentElement); return
\* (no updateImageTransform on this path)
ToggleFullscreen(i) ==
    /\ i \in imgs
    /\ fsPending' = Append(fsPending,
                           IF fullscreenElement = 0 THEN <<"enter", i>> ELSE <<"exit", 0>>)
    /\ last' = Ev("fullscreen", i, 0, 0)
    /\ wpair' = [j \in imgs |-> NoPair]
    /\ logged' = NoLog
    /\ unhandled' = FALSE
    /\ UNCHANGED <<fvars, mvars, tvars, ivars, wvars, dvars>>
    /\ UNCHANGED <<imgs, scale, panning, pointX, pointY, start, cursor, transform,
                   fullscreenElement, zrun, press>>

\* a click on the control bar outside every .zoom-btn: if (!action) return
ClickNoAction(i) ==
    /\ i \in imgs
    /\ last' = Ev("click-none", i, 0, 0)
    /\ wpair' = [wpair EXCEPT ![i] = NoPair]
    /\ logged' = NoLog
    /\ unhandled' = FALSE
    /\ UNCHANGED <<fvars, mvars, tvars, ivars, wvars, dvars>>
    /\ UNCHANGED <<imgs, scale, panning, pointX, pointY, start, cursor, transform,
                   fullscreenElement, fsPending, zrun, press>>

----------------------------------------------------------------------------
(* initImageZoom: wheel and pointer listeners *)

\* mutant: the wheel listener changes the scale and does not write the transform
Wheel_NoRedraw(i, deltaY) ==
    LET s == WheelScale(scale[i], deltaY) IN
    /\ i \in imgs
    /\ Small(s, MaxMag)
    /\ scale' = [scale EXCEPT ![i] = s]
    /\ cursor' = [cursor EXCEPT ![i] = TransformCursor(s)]
    /\ last' = Ev("wheel", i, deltaY, 0)
    /\ zrun' = [zrun EXCEPT ![i] = RunReset(s)]
    /\ wpair' = [wpair EXCEPT ![i] = PairAfter(@, deltaY, scale[i])]
    /\ logged' = NoLog
    /\ unhandled' = FALSE
    /\ UNCHANGED <<fvars, mvars, tvars, ivars, wvars, dvars>>
    /\ UNCHANGED <<imgs, transform, panning, pointX, pointY, start, fullscreenElement, fsPending, press>>

Wheel(i, deltaY) ==
    LET s == WheelScale(scale[i], deltaY) IN
    /\ i \in imgs
    /\ Small(s, MaxMag)
    /\ scale' = [scale EXCEPT ![i] = s]
    /\ transform' = [transform EXCEPT ![i] = <<pointX[i], pointY[i], s>>]
    /\ cursor' = [cursor EXCEPT ![i] = TransformCursor(s)]
    /\ last' = Ev("wheel", i, deltaY, 0)
    /\ zrun' = [zrun EXCEPT ![i] = RunReset(s)]
    /\ wpair' = [wpair EXCEPT ![i] = PairAfter(@, deltaY, scale[i])]
    /\ logged' = NoLog
    /\ unhandled' = FALSE
    /\ UNCHANGED <<fvars, mvars, tvars, ivars, wvars, dvars>>
    /\ UNCHANGED <<imgs, panning, pointX, pointY, start, fullscreenElement, fsPending, press>>

\* mutant: the drag origin is the pointer position, the offset is not subtracted
MouseDown_NoOffset(i, x, y) ==
    /\ i \in imgs
    /\ start' = [start EXCEPT ![i] = [x |-> x, y |-> y]]
    /\ panning' = [panning EXCEPT ![i] = TRUE]
    /\ cursor' = [cursor EXCEPT ![i] = "grabbing"]
    /\ last' = Ev("mousedown", i, x, y)
    /\ press' = [press EXCEPT ![i] = [x |-> x, y |-> y, ox |-> pointX[i], oy |-> pointY[i]]]
    /\ wpair' = [wpair EXCEPT ![i] = NoPair]
    /\ logged' = NoLog
    /\ unhandled' = FALSE
    /\ UNCHANGED <<fvars, mvars, tvars, ivars, wvars, dvars>>
    /\ UNCHANGED <<imgs, scale, pointX, pointY, transform, fullscreenElement, fsPending, zrun>>

MouseDown(i, x, y) ==
    /\ i \in imgs
    /\ start' = [start EXCEPT ![i] = [x |-> x - pointX[i], y |-> y - pointY[i]]]
    /\ panning' = [panning EXCEPT ![i] = TRUE]
    /\ cursor' = [cursor EXCEPT ![i] = "grabbing"]
    /\ last' = Ev("mousedown", i, x, y)
    /\ press' = [press EXCEPT ![i] = [x |-> x, y |-> y, ox |-> pointX[i], oy |-> pointY[i]]]
    /\ wpair' = [wpair EXCEPT ![i] = NoPair]
    /\ logged' = NoLog
    /\ unhandled' = FALSE
    /\ UNCHANGED <<fvars, mvars, tvars, ivars, wvars, dvars>>
    /\ UNCHANGED <<imgs, scale, pointX, pointY, transform, fullscreenElement, fsPending, zrun>>

\* document 'mousemove': the listener of every image runs
InRange(v) == -MaxOff <= v /\ v <= MaxOff

\* mutant: the listener does not look at the panning flag before moving
MouseMove_Always(x, y) ==
    /\ \A i \in imgs : panning[i] => InRange(x - start[i].x)
    /\ pointX' = [i \in imgs |-> x - start[i].x]
    /\ pointY' = [i \in imgs |-> y - start[i].y]
    /\ transform' = [i \in imgs |->
                       IF panning[i] THEN <<x - start[i].x, y - start[i].y, scale[i]>>
                       ELSE transform[i]]
    /\ cursor' = [i \in imgs |->
                       IF panning[i] THEN TransformCursor(scale[i]) ELSE cursor[i]]
    /\ last' = Ev("mousemove", 0, x, y)
    /\ wpair' = [i \in imgs |-> NoPair]
    /\ logged' = NoLog
    /\ unhandled' = FALSE
    /\ UNCHANGED <<fvars, mvars, tvars, ivars, wvars, dvars>>
    /\ UNCHANGED <<imgs, scale, panning, start, fullscreenElement, fsPending, zrun, press>>

MouseMove(x, y) ==
    /\ \A i \in imgs : panning[i] => InRange(x - start[i].x)
    /\ pointX' = [i \in imgs |-> IF panning[i] THEN x - start[i].x ELSE pointX[i]]
    /\ pointY' = [i \in imgs |-> IF panning[i] THEN y - start[i].y ELSE pointY[i]]
    /\ transform' = [i \in imgs |->
                       IF panning[i] THEN <<x - start[i].x, y - start[i].y, scale[i]>>
                       ELSE transform[i]]
    /\ cursor' = [i \in imgs |->
                       IF panning[i] THEN TransformCursor(scale[i]) ELSE cursor[i]]
    /\ last' = Ev("mousemove", 0, x, y)
    /\ wpair' = [i \in imgs |-> NoPair]
    /\ logged' = NoLog
    /\ unhandled' = FALSE
    /\ UNCHANGED <<fvars, mvars, tvars, ivars, wvars, dvars>>
    /\ UNCHANGED <<imgs, scale, panning, start, fullscreenElement, fsPending, zrun, press>>

\* document 'mouseup': the listener of every image runs
MouseUp ==
    /\ panning' = [i \in imgs |-> FALSE]
    /\ cursor' = [i \in imgs |-> IF RLt(One, scale[i]) THEN "grab" ELSE "default"]
    /\ last' = Ev("mouseup", 0, 0, 0)
    /\ wpair' = [i \in imgs |-> NoPair]
    /\ logged' = NoLog
    /\ unhandled' = FALSE
    /\ UNCHANGED <<fvars, mvars, tvars, ivars, wvars, dvars>>
    /\ UNCHANGED <<imgs, scale, pointX, pointY, start, transform, fullscreenElement,
                   fsPending, zrun, press>>

----------------------------------------------------------------------------
(* The platform settling fullscreen promises *)

\* the pending promises without the one at position k
DropAt(seq, k) == SubSeq(seq, 1, k - 1) \o SubSeq(seq, k + 1, Len(seq))

\* requestFullscreen() resolves: the container becomes the fullscreen element
FullscreenGranted(k) ==
    /\ k \in DOMAIN fsPending
    /\ fsPending[k][1] = "enter"
    /\ fullscreenElement' = fsPending[k][2]
    /\ fsPending' = DropAt(fsPending, k)
    /\ last' = Ev("fs-granted", fsPending[k][2], 0, 0)
    /\ wpair' = [i \in imgs |-> NoPair]
    /\ logged' = NoLog
    /\ unhandled' = FALSE
    /\ UNCHANGED <<fvars, mvars, tvars, ivars, wvars, dvars>>
    /\ UNCHANGED <<imgs, scale, panning, pointX, pointY, start, cursor, transform, zrun, press>>

\* mutant: the rejection handler also ends every pan
FullscreenDenied_EndsPan(k) ==
    /\ k \in DOMAIN fsPending
    /\ fsPending[k][1] = "enter"
    /\ fsPending' = DropAt(fsPending, k)
    /\ last' = Ev("fs-denied", fsPending[k][2], 0, 0)
    /\ wpair' = [j \in imgs |-> NoPair]
    /\ logged' = <<"Fullscreen error:">>
    /\ unhandled' = FALSE
    /\ UNCHANGED <<fvars, mvars, tvars, ivars, wvars, dvars>>
    /\ panning' = [j \in imgs |-> FALSE]
    /\ UNCHANGED <<imgs, scale, pointX, pointY, start, cursor, transform,
                   fullscreenElement, zrun, press>>

\* requestFullscreen() rejects: .catch(err => console.error(...))
FullscreenDenied(k) ==
    /\ k \in DOMAIN fsPending
    /\ fsPending[k][1] = "enter"
    /\ fsPending' = DropAt(fsPending, k)
    /\ last' = Ev("fs-denied", fsPending[k][2], 0, 0)
    /\ wpair' = [j \in imgs |-> NoPair]
    /\ logged' = <<"Fullscreen error:">>
    /\ unhandled' = FALSE
    /\ UNCHANGED <<fvars, mvars, tvars, ivars, wvars, dvars>>
    /\ UNCHANGED <<imgs, scale, panning, pointX, pointY, start, cursor, transform,
                   fullscreenElement, zrun, press>>

\* document.exitFullscreen() settles
FullscreenExited(k) ==
    /\ k \in DOMAIN fsPending
    /\ fsPending[k][1] = "exit"
    /\ fullscreenElement' = 0
    /\ fsPending' = DropAt(fsPending, k)
    /\ last' = Ev("fs-exited", 0, 0, 0)
    /\ wpair' = [i \in imgs |-> NoPair]
    /\ logged' = NoLog
    /\ unhandled' = FALSE
    /\ UNCHANGED <<fvars, mvars, tvars, ivars, wvars, dvars>>
    /\ UNCHANGED <<imgs, scale, panning, pointX, pointY, start, cursor, transform, zrun, press>>

\* document.exitFullscreen() rejects: the call has no .catch, the rejection
\* is left to the platform's unhandledrejection report
FullscreenExitRejected(k) ==
    /\ k \in DOMAIN fsPending
    /\ fsPending[k][1] = "exit"
    /\ fsPending' = DropAt(fsPending, k)
    /\ last' = Ev("fs-exit-rejected", 0, 0, 0)
    /\ wpair' = [i \in imgs |-> NoPair]
    /\ logged' = NoLog
    /\ unhandled' = TRUE
    /\ UNCHANGED <<fvars, mvars, tvars, ivars, wvars, dvars>>
    /\ UNCHANGED <<imgs, scale, panning, pointX, pointY, start, cursor, transform,
                   fullscreenElement, zrun, press>>

----------------------------------------------------------------------------
(* setupModelViewers, addModelControls: the listeners of one model-viewer  *)

MaxPanels == 2        \* error events handled per model-viewer

closure == <<imgs, scale, panning, pointX, pointY, start, cursor, transform,
             zrun, press, wpair>>

\* mutant: the load listener also shows the viewer again
ModelLoad_Shows(m) ==
    /\ m \in mods
    /\ loaded' = [loaded EXCEPT ![m] = TRUE]
    /\ display' = [display EXCEPT ![m] = ""]
    /\ fired' = [fired EXCEPT ![m] = @ \cup {"load"}]
    /\ last' = Ev("model-load", m, 0, 0)
    /\ logged' = NoLog
    /\ unhandled' = FALSE
    /\ UNCHANGED <<errorPanels, panelText, autoRotate, rotateActive, commands>>
    /\ UNCHANGED <<closure, fullscreenElement, fsPending, fvars, tvars, ivars, wvars, dvars>>
    /\ UNCHANGED mods

\* viewer.addEventListener('load', () => viewer.classList.add('loaded'))
ModelLoad(m) ==
    /\ m \in mods
    /\ loaded' = [loaded EXCEPT ![m] = TRUE]
    /\ fired' = [fired EXCEPT ![m] = @ \cup {"load"}]
    /\ last' = Ev("model-load", m, 0, 0)
    /\ logged' = NoLog
    /\ unhandled' = FALSE
    /\ UNCHANGED <<display, errorPanels, panelText, autoRotate, rotateActive, commands>>
    /\ UNCHANGED <<closure, fullscreenElement, fsPending, fvars, tvars, ivars, wvars, dvars>>
    /\ UNCHANGED mods

\* the error events explored: event.detail.type of the viewer's error event
ErrorEvents == {"loadfailure", "webglcontextlost"}

\* errorDiv.innerHTML: the same markup for every error
PanelHtml == "Failed to load 3D model. Please check the file format and path"

\* mutant: the panel shows the error it was made for
PanelFor_Raw(e) == e

\* showModelError(viewer) is not given the event
PanelFor(e) == PanelHtml

\* mutant: the error listener also stops the rotation
ModelError_StopsRotation(m, e) ==
    /\ m \in mods
    /\ e \in ErrorEvents
    /\ errorPanels[m] < MaxPanels
    /\ logged' = <<"Model loading error:", e>>
    /\ unhandled' = FALSE
    /\ errorPanels' = [errorPanels EXCEPT ![m] = @ + 1]
    /\ panelText' = [panelText EXCEPT ![m] = @ \cup {PanelFor(e)}]
    /\ display' = [display EXCEPT ![m] = "none"]
    /\ fired' = [fired EXCEPT ![m] = @ \cup {"error"}]
    /\ last' = Ev("model-error", m, 0, 0)
    /\ autoRotate' = [autoRotate EXCEPT ![m] = FALSE]
    /\ UNCHANGED <<loaded, rotateActive, commands>>
    /\ UNCHANGED <<closure, fullscreenElement, fsPending, fvars, tvars, ivars, wvars, dvars>>
    /\ UNCHANGED mods

\* viewer.addEventListener('error', (event) => ...): console.error('Model
\* loading error:', event), then showModelError(viewer)
ModelError(m, e) ==
    /\ m \in mods
    /\ e \in ErrorEvents
    /\ errorPanels[m] < MaxPanels
    /\ logged' = <<"Model loading error:", e>>
    /\ unhandled' = FALSE
    /\ errorPanels' = [errorPanels EXCEPT ![m] = @ + 1]
    /\ panelText' = [panelText EXCEPT ![m] = @ \cup {PanelFor(e)}]
    /\ display' = [display EXCEPT ![m] = "none"]
    /\ fired' = [fired EXCEPT ![m] = @ \cup {"error"}]
    /\ last' = Ev("model-error", m, 0, 0)
    /\ UNCHANGED <<loaded, autoRotate, rotateActive, commands>>
    /\ UNCHANGED <<closure, fullscreenElement, fsPending, fvars, tvars, ivars, wvars, dvars>>
    /\ UNCHANGED mods

\* mutant: the reset button also marks the viewer as loaded
ModelReset_Loads(m) ==
    /\ m \in mods
    /\ commands' = [commands EXCEPT ![m] = @ \cup {"resetTurntableRotation", "jumpCameraToGoal"}]
    /\ loaded' = [loaded EXCEPT ![m] = TRUE]
    /\ last' = Ev("model-reset", m, 0, 0)
    /\ logged' = NoLog
    /\ unhandled' = FALSE
    /\ UNCHANGED <<display, errorPanels, panelText, autoRotate, rotateActive, fired>>
    /\ UNCHANGED <<closure, fullscreenElement, fsPending, fvars, tvars, ivars, wvars, dvars>>
    /\ UNCHANGED mods

\* case 'reset': viewer.resetTurntableRotation(); viewer.jumpCameraToGoal()
ModelReset(m) ==
    /\ m \in mods
    /\ commands' = [commands EXCEPT ![m] = @ \cup {"resetTurntableRotation", "jumpCameraToGoal"}]
    /\ last' = Ev("model-reset", m, 0, 0)
    /\ logged' = NoLog
    /\ unhandled' = FALSE
    /\ UNCHANGED <<loaded, display, errorPanels, panelText, autoRotate, rotateActive, fired>>
    /\ UNCHANGED <<closure, fullscreenElement, fsPending, fvars, tvars, ivars, wvars, dvars>>
    /\ UNCHANGED mods

\* case 'rotate': toggleAutoRotate(viewer, button)
ToggleAutoRotate(m) ==
    /\ m \in mods
    /\ IF autoRotate[m]
       THEN /\ autoRotate' = [autoRotate EXCEPT ![m] = FALSE]
            /\ rotateActive' = [rotateActive EXCEPT ![m] = FALSE]
            /\ commands' = [commands EXCEPT ![m] = @ \cup {"removeAttribute auto-rotate"}]
       ELSE /\ autoRotate' = [autoRotate EXCEPT ![m] = TRUE]
            /\ rotateActive' = [rotateActive EXCEPT ![m] = TRUE]
            /\ commands' = [commands EXCEPT ![m] = @ \cup {"setAttribute auto-rotate"}]
    /\ last' = Ev("model-rotate", m, 0, 0)
    /\ logged' = NoLog
    /\ unhandled' = FALSE
    /\ UNCHANGED <<loaded, display, errorPanels, panelText, fired>>
    /\ UNCHANGED <<closure, fullscreenElement, fsPending, fvars, tvars, ivars, wvars, dvars>>
    /\ UNCHANGED mods

\* case 'fullscreen': toggleModelFullscreen(viewer)
ToggleModelFullscreen(m) ==
    /\ m \in mods
    /\ IF fullscreenElement = 0
       THEN /\ fsPending' = Append(fsPending, <<"enter", m>>)
            /\ commands' = [commands EXCEPT ![m] = @ \cup {"requestFullscreen"}]
       ELSE /\ fsPending' = Append(fsPending, <<"exit", 0>>)
            /\ UNCHANGED commands
    /\ last' = Ev("model-fullscreen", m, 0, 0)
    /\ logged' = NoLog
    /\ unhandled' = FALSE
    /\ UNCHANGED <<loaded, display, errorPanels, panelText, autoRotate, rotateActive, fired>>
    /\ UNCHANGED <<closure, fullscreenElement, fvars, tvars, ivars, wvars, dvars>>
    /\ UNCHANGED mods

\* a click on the model controls outside every .control-btn: if (!action) return
ModelClickNoAction(m) ==
    /\ m \in mods
    /\ last' = Ev("model-click-none", m, 0, 0)
    /\ logged' = NoLog
    /\ unhandled' = FALSE
    /\ UNCHANGED <<closure, fullscreenElement, fsPending, fvars, tvars, mvars, ivars, wvars, dvars>>

\* the model-viewer elements M of a page, as setupModelViewers finds them
InitModels(M) ==
    /\ mods = M
    /\ loaded = [m \in M |-> FALSE]
    /\ display = [m \in M |-> ""]
    /\ errorPanels = [m \in M |-> 0]
    /\ panelText = [m \in M |-> {}]
    /\ autoRotate \in [M -> BOOLEAN]       \* the markup may carry auto-rotate
    /\ rotateActive = [m \in M |-> FALSE]
    /\ commands = [m \in M |-> {}]
    /\ fired = [m \in M |-> {}]

\* init() has returned; the page has no mediumZoom
InitReturned == pc = "returned" /\ mediumZoom = "undefined"

\* no second run is followed
NoTwin == [on |-> FALSE]
InitNoTwin == twin = NoTwin

\* the scale is not followed as a double
NoDouble == [on |-> FALSE]
InitNoDouble == dbl = NoDouble

\* a page without tab buttons
InitNoTabs ==
    /\ tabButtons = <<>> /\ tabContents = <<>>
    /\ btnActive = {} /\ elActive = {} /\ clicked = [button |-> 0, threw |-> FALSE]

----------------------------------------------------------------------------
(* Specification of one zoomable image *)

\* a page without a project description: setupCollapsibleSections returns at once
InitFolderIdle ==
    /\ tag = <<>> /\ text = <<>> /\ kids = <<>> /\ parent = <<>> /\ isOpen = <<>>
    /\ runs = 0
    /\ before = <<>> /\ hdrs = <<>> /\ made = <<>> /\ stops = <<>>

InitViewport(I) ==
    /\ imgs = I
    /\ scale = [i \in I |-> One]
    /\ panning = [i \in I |-> FALSE]
    /\ pointX = [i \in I |-> 0]
    /\ pointY = [i \in I |-> 0]
    /\ start = [i \in I |-> [x |-> 0, y |-> 0]]
    /\ cursor = [i \in I |-> ""]
    /\ transform = [i \in I |-> <<>>]
    /\ fullscreenElement = 0
    /\ fsPending = <<>>
    /\ logged = NoLog
    /\ unhandled = FALSE
    /\ last = Ev("init", 0, 0, 0)
    /\ zrun = [i \in I |-> RunReset(One)]
    /\ press = [i \in I |-> [x |-> 0, y |-> 0, ox |-> 0, oy |-> 0]]
    /\ wpair = [i \in I |-> NoPair]

NextViewport ==
    \/ \E i \in imgs : ZoomIn(i)
    \/ \E i \in imgs : ZoomOut(i)
    \/ \E i \in imgs : ResetView(i)
    \/ Len(fsPending) < MaxPending /\ \E i \in imgs : ToggleFullscreen(i)
    \/ \E i \in imgs : ClickNoAction(i)
    \/ \E i \in imgs, d \in {-1, 0, 1} : Wheel(i, d)
    \/ \E i \in imgs, p \in Points : MouseDown(i, p[1], p[2])
    \/ \E p \in Points : MouseMove(p[1], p[2])
    \/ MouseUp
    \/ \E k \in DOMAIN fsPending : FullscreenGranted(k)
    \/ \E k \in DOMAIN fsPending : FullscreenDenied(k)
    \/ \E k \in DOMAIN fsPending : FullscreenExited(k)
    \/ \E k \in DOMAIN fsPending : FullscreenExitRejected(k)

\* one zoomable image on the page; setupCollapsibleSections is left out
InitOneViewport == InitViewport({1}) /\ InitFolderIdle /\ InitModels({}) /\ InitNoTabs
                   /\ InitReturned /\ InitNoTwin /\ InitNoDouble

SpecViewport == InitOneViewport /\ [][NextViewport]_vars

----------------------------------------------------------------------------
(* Specification of the model-viewer elements of a page *)

NextModels ==
    \/ \E m \in mods : ModelLoad(m)
    \/ \E m \in mods, e \in ErrorEvents : ModelError(m, e)
    \/ \E m \in mods : ModelReset(m)
    \/ \E m \in mods : ToggleAutoRotate(m)
    \/ Len(fsPending) < MaxPending /\ \E m \in mods : ToggleModelFullscreen(m)
    \/ \E m \in mods : ModelClickNoAction(m)
    \/ \E k \in DOMAIN fsPending : FullscreenGranted(k)
    \/ \E k \in DOMAIN fsPending : FullscreenDenied(k)
    \/ \E k \in DOMAIN fsPending : FullscreenExited(k)
    \/ \E k \in DOMAIN fsPending : FullscreenExitRejected(k)

\* one model-viewer element (element 3 of the page), no zoomable image
InitOneModel == InitViewport({}) /\ InitFolderIdle /\ InitModels({3}) /\ InitNoTabs
                /\ InitReturned /\ InitNoTwin /\ InitNoDouble

SpecModels == InitOneModel /\ [][NextModels]_vars

\* the calls the listeners make on a viewer; none of them loads the model again
ViewerCalls == {"resetTurntableRotation", "jumpCameraToGoal", "requestFullscreen",
                "setAttribute auto-rotate", "removeAttribute auto-rotate"}

\* C11: a model-viewer that has fired neither load nor error is still loading
\* (not marked loaded, not hidden, no error panel), whatever control clicks
\* (reset, rotate, fullscreen) were handled.
C11_StaysLoading ==
    \A m \in mods :
        fired[m] = {} =>
            /\ ~loaded[m]
            /\ display[m] # "none"
            /\ errorPanels[m] = 0
\* the viewer fired nothing, was reset, rotated and is shown fullscreen
C11_Witness ==
    /\ fired[3] = {}
    /\ "resetTurntableRotation" \in commands[3]
    /\ autoRotate[3]
    /\ fullscreenElement = 3

\* C12: once a viewer's error event was handled the viewer stays hidden and an
\* error panel stays present, whatever events follow, and no call that would
\* load the model again is ever made on it.
C12_FailedForGood ==
    \A m \in mods :
        "error" \in fired[m] =>
            /\ display[m] = "none"
            /\ errorPanels[m] >= 1
            /\ commands[m] \subseteq ViewerCalls
\* a load event handled after the error, with every control used on the viewer
C12_Witness ==
    /\ last = Ev("model-load", 3, 0, 0)
    /\ "error" \in fired[3]
    /\ commands[3] = ViewerCalls

\* the load state a viewer presents: the 'loaded' class is the ready flag,
\* display 'none' (with its error panel) the failed presentation
LoadState(m) ==
    IF loaded[m] /\ display[m] = "none" THEN "LoadedAndFailed"
    ELSE IF display[m] = "none" THEN "Failed"
    ELSE IF loaded[m] THEN "Loaded"
    ELSE "Loading"

\* C26: a viewer's load state changes only out of Loading: a load event after
\* an error does not apply the ready flag, an error event after a load does not
\* fail the viewer, and no viewer ever has both the 'loaded' flag and the failed
\* presentation.
C26_OnlyOutOfLoading ==
    [][\A m \in mods :
          /\ LoadState(m)' # "LoadedAndFailed"
          /\ LoadState(m)' # LoadState(m) => LoadState(m) = "Loading"]_vars

\* C27: load and error events leave the rotation toggle and the fullscreen
\* state alone; the reset, rotate and fullscreen controls are handled in each
\* of the load states and leave the load state alone; the reset control only
\* issues the two camera commands.
C27_ControlsOrthogonal ==
    /\ [](\A m \in mods :
            /\ ENABLED ModelReset(m)
            /\ ENABLED ToggleAutoRotate(m)
            /\ ENABLED ToggleModelFullscreen(m))
    /\ [][/\ last'.op \in {"model-load", "model-error"} =>
                 UNCHANGED <<autoRotate, rotateActive, fullscreenElement, fsPending, commands>>
          /\ last'.op \in {"model-reset", "model-rotate", "model-fullscreen"} =>
                 UNCHANGED <<loaded, display, errorPanels, panelText>>
          /\ last'.op = "model-reset" =>
                 /\ UNCHANGED <<autoRotate, rotateActive, fullscreenElement, fsPending>>
                 /\ commands' = [commands EXCEPT ![last'.img] =
                                    @ \cup {"resetTurntableRotation", "jumpCameraToGoal"}]]_vars
\* the viewer loaded and then failed, rotates and is shown fullscreen, and its
\* reset control was the last thing handled
C27_Witness ==
    /\ last = Ev("model-reset", 3, 0, 0)
    /\ loaded[3]
    /\ display[3] = "none"
    /\ autoRotate[3]
    /\ rotateActive[3]
    /\ fullscreenElement = 3

\* C28: a viewer does not rotate until its rotate control is used, and the
\* auto-rotate attribute is present exactly when the rotate control is shown
\* active.
C28_RotateMatchesControl ==
    \A m \in mods :
        /\ autoRotate[m] <=> rotateActive[m]
        /\ commands[m] \cap {"setAttribute auto-rotate", "removeAttribute auto-rotate"} = {}
               => ~autoRotate[m]

\* container = viewer.parentElement: the element the control bar and the error
\* panels are appended to
ParentElement(m) == m + 10

\* C29: the fullscreen control of a viewer, used while nothing is fullscreen,
\* requests fullscreen for the viewer's container (the element that holds the
\* control bar).
C29_FullscreenOfContainer ==
    [][(last'.op = "model-fullscreen" /\ fullscreenElement = 0) =>
           fsPending' = Append(fsPending, <<"enter", ParentElement(last'.img)>>)]_vars

\* C30: every error panel has the same fixed content, whatever the error was;
\* the error itself goes to the log of the handler, with the fixed prefix, and
\* nowhere else.
C30_PanelFixed ==
    /\ \A m \in mods :
          /\ panelText[m] \subseteq {PanelHtml}
          /\ errorPanels[m] > 0 => panelText[m] = {PanelHtml}
    /\ last.op = "model-error" =>
          \E e \in ErrorEvents : logged = <<"Model loading error:", e>>
    /\ last.op # "model-error" => \A k \in DOMAIN logged : logged[k] \notin ErrorEvents
\* two panels of one viewer, the second made for a lost WebGL context
C30_Witness ==
    /\ last.op = "model-error"
    /\ errorPanels[3] = 2
    /\ logged = <<"Model loading error:", "webglcontextlost">>

\* C38 as stated: whatever events a viewer has fired, repeated error events
\* included, at most one error panel exists for it.
C38_OnePanel ==
    \A m \in mods : errorPanels[m] <= 1

----------------------------------------------------------------------------
(* Two runs of the controls of a model-viewer.  The first run is viewer 3   *)
(* of the page; the second run, kept in `twin`, is the same script on a     *)
(* page whose tree may differ in the viewer's auto-rotate attribute and in   *)
(* document.fullscreenElement.  Both runs are given the same clicks: each   *)
(* control once, in any order, the second run handling a click right after  *)
(* the first.                                                               *)

\* an element of the second page that is not the viewer and may be fullscreen
\* at the start: the viewer's container
OtherElement == ParentElement(3)

\* the controls of the bar
Controls == {"model-reset", "model-fullscreen", "model-rotate"}

\* the controls viewer m has handled a click of
Handled(m) ==
    {c \in Controls :
        \/ c = "model-reset" /\ "resetTurntableRotation" \in commands[m]
        \/ c = "model-fullscreen" /\ fsPending # <<>>
        \/ c = "model-rotate"
              /\ commands[m] \cap {"setAttribute auto-rotate", "removeAttribute auto-rotate"} # {}}

\* the calls the first run has made: the calls on the viewer and document.exitFullscreen()
Calls(m) ==
    commands[m] \cup
        (IF \E k \in DOMAIN fsPending : fsPending[k][1] = "exit" THEN {"exitFullscreen"} ELSE {})

\* the click handler of the controls (switch (action)) on the second page
TwinAfter(w, action) ==
    LET h == [w EXCEPT !.handled = @ \cup {action}] IN
    CASE action = "model-reset" ->
            [h EXCEPT !.commands = @ \cup {"resetTurntableRotation", "jumpCameraToGoal"}]
      [] action = "model-fullscreen" ->
            IF w.fullscreenElement = 0
            THEN [h EXCEPT !.commands = @ \cup {"requestFullscreen"}]
            ELSE [h EXCEPT !.commands = @ \cup {"exitFullscreen"}]
      [] action = "model-rotate" ->
            IF w.autoRotate
            THEN [h EXCEPT !.autoRotate = FALSE, !.rotateActive = FALSE,
                           !.commands = @ \cup {"removeAttribute auto-rotate"}]
            ELSE [h EXCEPT !.autoRotate = TRUE, !.rotateActive = TRUE,
                           !.commands = @ \cup {"setAttribute auto-rotate"}]

\* the second run has handled every click the first has
InStep == twin.handled = Handled(3)

\* the second run handles the click the first run handled last
TwinFollows ==
    /\ ~InStep
    /\ twin' = TwinAfter(twin, last.op)
    /\ UNCHANGED <<vvars, fvars, mvars, tvars, ivars, dvars>>

NextTwoRuns ==
    \/ InStep /\ "model-reset" \notin Handled(3) /\ ModelReset(3)
    \/ InStep /\ "model-fullscreen" \notin Handled(3) /\ ToggleModelFullscreen(3)
    \/ InStep /\ "model-rotate" \notin Handled(3) /\ ToggleAutoRotate(3)
    \/ TwinFollows

\* the second page: its viewer may carry auto-rotate, an element of it may be fullscreen
InitTwin ==
    twin \in [on : {TRUE}, autoRotate : BOOLEAN, rotateActive : {FALSE},
              fullscreenElement : {0, OtherElement}, commands : {{}}, handled : {{}}]

InitTwoRuns == InitViewport({}) /\ InitFolderIdle /\ InitModels({3}) /\ InitNoTabs
               /\ InitReturned /\ InitTwin /\ InitNoDouble

SpecTwoRuns == InitTwoRuns /\ [][NextTwoRuns]_vars

\* C37 as stated: after the same clicks both runs have made the same calls and
\* show the same state of the rotate control, whatever the auto-rotate
\* attribute and the fullscreen element were in either tree at the start.
C37_SameDecisions ==
    InStep =>
        /\ Calls(3) = twin.commands
        /\ rotateActive[3] = twin.rotateActive

----------------------------------------------------------------------------
(* setupCodeTabs *)

MaxTabs == 2          \* .tab-button elements on the page

\* the values of data-tab explored
TabIds == {"a", "b", "c"}

\* tabContents: the elements of the page with an id "tab-<id>", and for each
\* whether it is a .tab-content
Panels == {id \in DOMAIN tabContents : tabContents[id]}

\* tabContents.forEach(content => content.classList.remove('active'))
DeactivateContents(act) == act \ Panels

\* mutant: the other buttons keep their class
ActivateButton_KeepsOthers(act, b) == act \cup {b}

\* tabButtons.forEach(btn => btn.classList.remove('active')); button.classList.add('active')
ActivateButton(act, b) == {b}

\* the click listener of button b; document.getElementById(`tab-${tabId}`) is
\* null when no element has that id, and .classList then throws a TypeError
TabClick(b) ==
    LET tabId == tabButtons[b] IN
    /\ b \in DOMAIN tabButtons
    /\ btnActive' = ActivateButton(btnActive, b)
    /\ IF tabId \in DOMAIN tabContents
       THEN /\ elActive' = DeactivateContents(elActive) \cup {tabId}
            /\ clicked' = [button |-> b, threw |-> FALSE]
       ELSE /\ elActive' = DeactivateContents(elActive)
            /\ clicked' = [button |-> b, threw |-> TRUE]
    /\ UNCHANGED <<tabButtons, tabContents>>
    /\ UNCHANGED <<vvars, fvars, mvars, ivars, wvars, dvars>>

\* a page with up to MaxTabs tab buttons; the markup decides which elements
\* carry the class 'active' at load
InitTabs ==
    /\ tabButtons \in UNION {[1..n -> TabIds] : n \in 1..MaxTabs}
    /\ tabContents \in UNION {[D -> BOOLEAN] : D \in SUBSET TabIds}
    /\ btnActive \in SUBSET DOMAIN tabButtons
    /\ elActive \in SUBSET DOMAIN tabContents
    /\ clicked = [button |-> 0, threw |-> FALSE]

NextTabs == \E b \in DOMAIN tabButtons : TabClick(b)

InitTabsPage == InitViewport({}) /\ InitFolderIdle /\ InitModels({}) /\ InitTabs
                /\ InitReturned /\ InitNoTwin /\ InitNoDouble

SpecTabs == InitTabsPage /\ [][NextTabs]_vars

\* C13 as stated: after a click on a tab button exactly one button is active,
\* exactly one panel is active, and that panel is the target of the active
\* button, which is the button clicked last.
C13_OneActivePair ==
    clicked.button # 0 =>
        /\ btnActive = {clicked.button}
        /\ elActive \cap Panels = {tabButtons[clicked.button]}

\* C13 amended: after a click the clicked button is the only active button;
\* the only active panel is its target when the target is the id of a panel,
\* and no panel is active when it is not.
C13_OneActiveButton ==
    clicked.button # 0 =>
        /\ btnActive = {clicked.button}
        /\ elActive \cap Panels =
               IF tabButtons[clicked.button] \in Panels
               THEN {tabButtons[clicked.button]} ELSE {}
\* a click whose target is a panel, on a page with a second button whose
\* target has no element and with another panel
C13_Witness ==
    /\ clicked.button = 1 /\ tabButtons[1] \in Panels
    /\ Len(tabButtons) = 2 /\ tabButtons[2] \notin DOMAIN tabContents
    /\ Cardinality(Panels) = 2

\* C31 as stated: a click on a tab button whose target is not the id of a
\* panel raises no error, changes no panel's active state, and leaves the
\* clicked button as the only active button.
C31_UnresolvedTargetSilent ==
    [][(clicked'.button # 0 /\ tabButtons[clicked'.button] \notin Panels) =>
           /\ ~clicked'.threw
           /\ elActive' \cap Panels = elActive \cap Panels
           /\ btnActive' = {clicked'.button}]_vars

----------------------------------------------------------------------------
(* Two zoomable images on one page: the pointer listeners *)

\* setupSchematicZoom calls initImageZoom once per image: every image has its
\* own panning flag, and document carries one mousemove and one mouseup
\* listener per image
NextPan ==
    \/ \E i \in imgs, p \in Points : MouseDown(i, p[1], p[2])
    \/ \E p \in Points : MouseMove(p[1], p[2])
    \/ MouseUp

InitTwoViewports == InitViewport({1, 2}) /\ InitFolderIdle /\ InitModels({}) /\ InitNoTabs
                    /\ InitReturned /\ InitNoTwin /\ InitNoDouble

SpecPan == InitTwoViewports /\ [][NextPan]_vars

\* C14 as stated: with two viewports on the page at most one of them is
\* panning, in every reachable state, under any order of press, move and
\* release events.
C14_OnePanning ==
    Cardinality({i \in imgs : panning[i]}) <= 1

----------------------------------------------------------------------------
(* Two zoomable images on one page: zoom controls, wheel and pointer *)

\* the control bar, wheel and pointer events of both images, on a few points
NextTwoZoom ==
    \/ \E i \in imgs : ZoomIn(i)
    \/ \E i \in imgs : ResetView(i)
    \/ \E i \in imgs, d \in {-1} : Wheel(i, d)
    \/ \E i \in imgs, p \in {<<1, 2>>} : MouseDown(i, p[1], p[2])
    \/ \E p \in {<<0, 0>>} : MouseMove(p[1], p[2])
    \/ MouseUp

SpecTwoZoom == InitTwoViewports /\ [][NextTwoZoom]_vars

\* the events handled for one image: a click in its control bar, a wheel event
\* or a pointer press on it
OwnEvents == {"zoom-in", "zoom-out", "reset", "fullscreen", "click-none", "wheel", "mousedown"}

\* C36: an event handled for one image (control click, wheel, press) leaves the
\* scale and the offset of every other image as they were.
C36_OtherViewportsUntouched ==
    [][last'.op \in OwnEvents =>
           \A j \in imgs \ {last'.img} :
               /\ scale'[j] = scale[j]
               /\ pointX'[j] = pointX[j]
               /\ pointY'[j] = pointY[j]]_vars
\* image 1 is reset while image 2 is zoomed and has been moved
C36_Witness ==
    /\ last = Ev("reset", 1, 0, 0)
    /\ scale[2] # One
    /\ pointX[2] # 0

----------------------------------------------------------------------------
(* Fullscreen: two zoomable images and one model-viewer on one page *)

\* every fullscreen button of the page, the platform settling the requests,
\* and enough of the other events of image 1 and of the viewer to give them a
\* state other than the initial one
NextFullscreen ==
    \/ Len(fsPending) < MaxPending /\ \E i \in imgs : ToggleFullscreen(i)
    \/ Len(fsPending) < MaxPending /\ \E m \in mods : ToggleModelFullscreen(m)
    \/ \E k \in DOMAIN fsPending : FullscreenGranted(k)
    \/ \E k \in DOMAIN fsPending : FullscreenDenied(k)
    \/ \E k \in DOMAIN fsPending : FullscreenExited(k)
    \/ \E k \in DOMAIN fsPending : FullscreenExitRejected(k)
    \/ \E d \in {-1} : Wheel(1, d)
    \/ \E p \in {<<0, 0>>} : MouseDown(1, p[1], p[2])
    \/ \E p \in Points : MouseMove(p[1], p[2])
    \/ MouseUp
    \/ \E m \in mods : ModelLoad(m)
    \/ \E m \in mods : ToggleAutoRotate(m)

InitFullscreenPage == InitViewport({1, 2}) /\ InitFolderIdle /\ InitModels({3}) /\ InitNoTabs
                      /\ InitReturned /\ InitNoTwin /\ InitNoDouble

SpecFullscreen == InitFullscreenPage /\ [][NextFullscreen]_vars

\* C15: the step that handles the rejection of a fullscreen request writes one
\* console.error line, adds no error panel, and leaves the state of every
\* viewport and model-viewer as it was; the toggle that issued the request
\* leaves that state alone as well.
C15_DenialHarmless ==
    [][ (last'.op \in {"fs-denied", "fullscreen", "model-fullscreen"}) =>
            /\ last'.op = "fs-denied" => logged' = <<"Fullscreen error:">>
            /\ UNCHANGED <<scale, pointX, pointY, panning, start, transform, cursor>>
            /\ UNCHANGED <<loaded, display, errorPanels, panelText, autoRotate, rotateActive>>
            /\ UNCHANGED fullscreenElement ]_vars
\* the request of image 1 is rejected while the image is zoomed, moved and being
\* panned, and the viewer is loaded, rotating and has asked for fullscreen itself
C15_Witness ==
    /\ last = Ev("fs-denied", 1, 0, 0)
    /\ panning[1] /\ scale[1] # One /\ pointX[1] # 0
    /\ loaded[3] /\ autoRotate[3] /\ "requestFullscreen" \in commands[3]

\* C19 as stated: the fullscreen button of image i issues an enter request for
\* the container of i whenever that container is not the fullscreen element
\* (also when another element is), and an exit only when it is.
C19_ToggleOwnContainer ==
    [][ last'.op = "fullscreen" =>
            fsPending' = Append(fsPending,
                                IF fullscreenElement = last'.img
                                THEN <<"exit", 0>> ELSE <<"enter", last'.img>>) ]_vars

----------------------------------------------------------------------------
(* One zoomable image whose fullscreen button is clicked again before the  *)
(* first request has settled                                              *)

MaxOverlap == 2       \* fullscreen promises in flight on this page

NextOverlap ==
    \/ Len(fsPending) < MaxOverlap /\ \E i \in imgs : ToggleFullscreen(i)
    \/ \E k \in DOMAIN fsPending : FullscreenGranted(k)
    \/ \E k \in DOMAIN fsPending : FullscreenDenied(k)
    \/ \E k \in DOMAIN fsPending : FullscreenExited(k)
    \/ \E k \in DOMAIN fsPending : FullscreenExitRejected(k)
    \/ \E i \in imgs, d \in {-1} : Wheel(i, d)
    \/ \E i \in imgs, p \in {<<0, 0>>} : MouseDown(i, p[1], p[2])
    \/ \E p \in Points : MouseMove(p[1], p[2])
    \/ MouseUp

SpecOverlap == InitOneViewport /\ [][NextOverlap]_vars

\* C21 as stated: a rejection of document.exitFullscreen() is caught and
\* logged like a rejected enter request and is never left unhandled.
C21_ExitRejectionCaught ==
    last.op = "fs-exit-rejected" =>
        /\ logged = <<"Fullscreen error:">>
        /\ ~unhandled

\* C22: a fullscreen click made while an enter request of the image is pending
\* and no element is fullscreen issues another enter request, not an exit; and
\* the platform settling the requests, in whatever order and with whatever
\* outcome, leaves scale, offset and mode as they are.
C22_OverlappingToggles ==
    [][ /\ (/\ last'.op = "fullscreen"
            /\ fullscreenElement = 0
            /\ \E k \in DOMAIN fsPending : fsPending[k] = <<"enter", last'.img>>) =>
               fsPending' = Append(fsPending, <<"enter", last'.img>>)
        /\ last'.op \in {"fs-granted", "fs-denied", "fs-exited", "fs-exit-rejected"} =>
               UNCHANGED <<scale, pointX, pointY, panning>> ]_vars
\* one of two overlapping requests was granted and then the other was rejected,
\* while the image is zoomed, moved and being panned
C22_Witness ==
    /\ last = Ev("fs-denied", 1, 0, 0) /\ fullscreenElement = 1 /\ fsPending = <<>>
    /\ scale[1] # One /\ pointX[1] # 0 /\ panning[1]

----------------------------------------------------------------------------
(* Properties of the viewport *)

\* C1: in every reachable viewport state the scale lies in [0.5, 5.0]; the
\* offset is not clamped: after a pointer move handled while panning it is
\* exactly pointer - start, whatever its size or sign.
C1_ScaleInRange ==
    \A i \in imgs :
        /\ RLe(MinScale, scale[i]) /\ RLe(scale[i], MaxScale)
        /\ (last.op = "mousemove" /\ panning[i]) =>
               /\ pointX[i] = last.x - start[i].x
               /\ pointY[i] = last.y - start[i].y
\* a zoom-in click at the upper bound, with the image panned to a negative offset
C1_Witness ==
    /\ last.op = "zoom-in" /\ zrun[1].dir = "none"
    /\ scale[1] = MaxScale /\ pointX[1] < 0 /\ pointY[1] < 0

\* C2: after k zoom-in clicks in a row from scale 1 the scale is min(1.2^k, 5),
\* after k zoom-out clicks in a row from scale 1 it is max(1/1.2^k, 0.5); runs
\* longer than the one that reaches the bound stay at the bound.
C2_ZoomRun ==
    \A i \in imgs :
        /\ zrun[i].dir = "both" => scale[i] = One
        /\ zrun[i].dir = "in" =>
               scale[i] = RMin(RPow(ZoomStep, zrun[i].k), MaxScale)
        /\ zrun[i].dir = "out" =>
               scale[i] = RMax(RDiv(One, RPow(ZoomStep, zrun[i].k)), MinScale)
\* a run of zoom-in clicks one click longer than the nine that reach 5
C2_Witness ==
    /\ zrun[1].dir = "in" /\ zrun[1].k = 10 /\ scale[1] = MaxScale
\* (the zoom-out side: six clicks, the fourth reaches 0.5)
C2_WitnessOut ==
    /\ zrun[1].dir = "out" /\ zrun[1].k = 6 /\ scale[1] = MinScale

\* C3: right after a reset click the scale is 1 and the offset is (0,0),
\* whatever the state before it, panning or not.
C3_ResetView ==
    last.op = "reset" =>
        /\ scale[last.img] = One
        /\ pointX[last.img] = 0
        /\ pointY[last.img] = 0
\* a reset in the middle of a pan that was begun at a non-zero offset
C3_Witness ==
    /\ last.op = "reset" /\ panning[1]
    /\ press[1].ox # 0 /\ press[1].oy # 0

\* C4: a pointer move handled during the pan begun by a press at b, with the
\* offset o at the press, leaves offset = o + (p - b), at every scale.
C4_PanOffset ==
    \A i \in imgs :
        (last.op = "mousemove" /\ panning[i]) =>
            /\ pointX[i] = press[i].ox + (last.x - press[i].x)
            /\ pointY[i] = press[i].oy + (last.y - press[i].y)
\* a move away from the press point, from a non-zero offset, at a scale other than 1
C4_Witness ==
    /\ last.op = "mousemove" /\ panning[1]
    /\ press[1].ox # 0 /\ last.x # press[1].x /\ scale[1] # One

\* neither step of the wheel pair that began at s0 engaged the clamp
PairUnclamped(s0) ==
    /\ RLe(RMul(s0, WheelUp), MaxScale)
    /\ RLe(MinScale, RMul(RMul(s0, WheelUp), WheelDown))

\* C5 as stated: a wheel event with deltaY < 0 directly followed by one with
\* deltaY > 0, neither clamped, returns the scale to its value before the two.
C5_WheelRoundTrip ==
    \A i \in imgs :
        (wpair[i].n = 2 /\ PairUnclamped(wpair[i].s0)) => scale[i] = wpair[i].s0

\* C5 amended: the pair leaves the scale at 0.99 times its value before the two
\* events (1.1 * 0.9), which is never that value.
C5_WheelPairDrift ==
    \A i \in imgs :
        (wpair[i].n = 2 /\ PairUnclamped(wpair[i].s0)) =>
            /\ scale[i] = RMul(wpair[i].s0, <<99, 100>>)
            /\ scale[i] # wpair[i].s0
C5_Witness ==
    /\ wpair[1].n = 2 /\ PairUnclamped(wpair[1].s0)
    /\ last.op = "wheel" /\ last.x > 0 /\ wpair[1].s0 # One

\* the scale a wheel event with this deltaY is described to give: times 1.1
\* when deltaY < 0, times 0.9 for every other deltaY, then clamped
WheelAsDescribed(s0, deltaY) ==
    RMin(RMax(RMul(s0, IF deltaY < 0 THEN WheelUp ELSE WheelDown), MinScale), MaxScale)

\* C16 as stated: a wheel event multiplies the scale by 1.1 when deltaY < 0 and
\* by 0.9 for every other deltaY, deltaY = 0 included, then clamps to [0.5, 5].
C16_WheelFactor ==
    [][ last'.op = "wheel" =>
            scale'[last'.img] = WheelAsDescribed(scale[last'.img], last'.x) ]_vars

\* the viewport state the mode and the fullscreen element are not part of
Picture == <<scale, pointX, pointY, transform>>

\* C17: a document mousemove leaves an image that is not panning as it is
\* (offset, scale, transform, mode); for an image that is panning it sets the
\* offset to pointer - start and leaves scale and mode as they are.
C17_UpdatePan ==
    [][ last'.op = "mousemove" =>
            \A i \in imgs :
                /\ scale'[i] = scale[i] /\ panning'[i] = panning[i]
                /\ start'[i] = start[i]
                /\ IF panning[i]
                   THEN /\ pointX'[i] = last'.x - start[i].x
                        /\ pointY'[i] = last'.y - start[i].y
                   ELSE /\ pointX'[i] = pointX[i] /\ pointY'[i] = pointY[i]
                        /\ transform'[i] = transform[i] ]_vars
\* a move while the image is not panning; its offset is not zero, so an earlier
\* move was handled while it was panning, and its scale is not 1
C17_Witness ==
    /\ last.op = "mousemove" /\ last.x # 0
    /\ ~panning[1] /\ pointX[1] # 0 /\ scale[1] # One

\* C18: mousedown on an image always sets its panning flag, the document mouseup
\* always clears every flag, and no other event (zoom-in, zoom-out, wheel, reset,
\* fullscreen, a settled fullscreen request, mousemove) changes a flag.
C18_ModeFollowsPointer ==
    [][ /\ last'.op = "mousedown" =>
               /\ panning'[last'.img]
               /\ \A i \in imgs \ {last'.img} : panning'[i] = panning[i]
        /\ last'.op = "mouseup" => \A i \in imgs : ~panning'[i]
        /\ last'.op \notin {"mousedown", "mouseup"} => panning' = panning ]_vars
\* a wheel event handled in the middle of a pan, after a zoom click in that pan
C18_Witness ==
    /\ last.op = "wheel" /\ panning[1]
    /\ scale[1] # One /\ transform[1] # <<>> /\ cursor[1] # "grabbing"

\* C20: the fullscreen button, and the platform settling its request, leave
\* scale, offset, mode and transform as they are; no zoom-in, zoom-out, wheel,
\* reset, mousedown, mousemove or mouseup event changes the fullscreen element
\* or issues a fullscreen request.
C20_FullscreenOrthogonal ==
    [][ /\ last'.op \in {"fullscreen", "fs-granted", "fs-denied", "fs-exited"} =>
               UNCHANGED <<Picture, panning, start>>
        /\ last'.op \in {"zoom-in", "zoom-out", "wheel", "reset",
                         "mousedown", "mousemove", "mouseup"} =>
               UNCHANGED <<fullscreenElement, fsPending>> ]_vars
\* the button clicked while the image is fullscreen, zoomed, moved and panning
C20_Witness ==
    /\ last.op = "fullscreen" /\ fullscreenElement = 1
    /\ scale[1] # One /\ pointX[1] # 0 /\ panning[1]

\* C23 as stated: while an image is panning, from the mousedown to the mouseup
\* and after any number of mousemove events, its cursor is 'grabbing'.
C23_GrabbingWhilePanning ==
    \A i \in imgs : panning[i] => cursor[i] = "grabbing"

\* C24 as stated: with scale <= 1 the cursor is neither 'grab' nor 'grabbing',
\* also during a press on the image; with scale > 1, not panning, and at least
\* one event handled, the cursor is 'grab'.
C24_NoAffordanceAtSmallScale ==
    \A i \in imgs :
        /\ RLe(scale[i], One) => cursor[i] \notin {"grab", "grabbing"}
        /\ (RLt(One, scale[i]) /\ ~panning[i] /\ cursor[i] # "") => cursor[i] = "grab"

\* C25: in every state the transform written to the image is the translate by
\* the held offset followed by the scale by the held scale, written as one
\* value; a transform never written stands for scale 1 and offset (0, 0).
C25_TransformMatchesState ==
    \A i \in imgs :
        IF transform[i] = <<>>
        THEN scale[i] = One /\ pointX[i] = 0 /\ pointY[i] = 0
        ELSE transform[i] = <<pointX[i], pointY[i], scale[i]>>
\* after a mouseup, which writes no transform, on an image zoomed and moved
C25_Witness ==
    /\ last.op = "mouseup"
    /\ scale[1] # One /\ pointX[1] # 0 /\ pointY[1] # 0
    /\ transform[1] # <<>>

\* C39: a reset handled while an image is being panned leaves the panning
\* flag and the recorded start as they were at the press and sets the offset to
\* (0, 0); the pointer move handled next sets the offset to the pointer minus
\* that start, so the (0, 0) of the reset lasts only until that move.
C39_ResetDuringPan ==
    [][/\ (last'.op = "reset" /\ panning[last'.img]) =>
              LET i == last'.img IN
              /\ panning'[i] /\ start'[i] = start[i]
              /\ start'[i] = [x |-> press[i].x - press[i].ox, y |-> press[i].y - press[i].oy]
              /\ pointX'[i] = 0 /\ pointY'[i] = 0
       /\ (last.op = "reset" /\ panning[last.img] /\ last'.op = "mousemove") =>
              LET i == last.img IN
              /\ pointX'[i] = last'.x - (press[i].x - press[i].ox)
              /\ pointY'[i] = last'.y - (press[i].y - press[i].oy)
              /\ panning'[i]]_vars
\* the image was moved, pressed again and dragged, and is reset during that drag
C39_Witness ==
    /\ last = Ev("reset", 1, 0, 0)
    /\ panning[1]
    /\ press[1].ox # 0
    /\ start[1].x # press[1].x
    /\ transform[1] = <<0, 0, One>>

----------------------------------------------------------------------------
(* Strings.  A string is a sequence of characters, so that trim() and       *)
(* toLowerCase() are computed and not assumed.                              *)

Upper == <<"A", "B", "C", "D", "E", "F", "G", "H", "I", "J", "K", "L", "M",
           "N", "O", "P", "Q", "R", "S", "T", "U", "V", "W", "X", "Y", "Z">>
Lower == <<"a", "b", "c", "d", "e", "f", "g", "h", "i", "j", "k", "l", "m",
           "n", "o", "p", "q", "r", "s", "t", "u", "v", "w", "x", "y", "z">>

ToLowerChar(c) ==
    IF \E k \in DOMAIN Upper : Upper[k] = c
    THEN Lower[CHOOSE k \in DOMAIN Upper : Upper[k] = c]
    ELSE c
ToLowerCase(str) == [k \in 1..Len(str) |-> ToLowerChar(str[k])]

IsSpace(c) == c \in {" ", "\t", "\n"}
RECURSIVE TrimStart(_)
TrimStart(str) ==
    IF str # <<>> /\ IsSpace(Head(str)) THEN TrimStart(Tail(str)) ELSE str
RECURSIVE TrimEnd(_)
TrimEnd(str) ==
    IF str # <<>> /\ IsSpace(str[Len(str)])
    THEN TrimEnd(SubSeq(str, 1, Len(str) - 1))
    ELSE str
Trim(str) == TrimEnd(TrimStart(str))

\* 'overview', 'introduction', 'description'
ExcludedTitles ==
    { <<"o", "v", "e", "r", "v", "i", "e", "w">>,
      <<"i", "n", "t", "r", "o", "d", "u", "c", "t", "i", "o", "n">>,
      <<"d", "e", "s", "c", "r", "i", "p", "t", "i", "o", "n">> }

\* mutant: the title is compared without trim()
IsExcludedText_NoTrim(str) == ToLowerCase(str) \in ExcludedTitles

\* header.textContent.trim().toLowerCase() is one of the three titles
IsExcludedText(str) == ToLowerCase(Trim(str)) \in ExcludedTitles

----------------------------------------------------------------------------
(* The document tree and the DOM calls setupCollapsibleSections makes *)

MaxLen  == 4      \* child nodes of the content container in the input
MaxRuns == 2      \* runs of setupCollapsibleSections explored

Tree == [tag |-> tag, text |-> text, kids |-> kids, parent |-> parent, open |-> isOpen]
NoTree == [tag |-> <<>>, text |-> <<>>, kids |-> <<>>, parent |-> <<>>, open |-> <<>>]

IndexOf(seq, n) == CHOOSE k \in 1..Len(seq) : seq[k] = n
Without(seq, n) == SelectSeq(seq, LAMBDA m : m # n)

\* document.createElement(tg): a node outside the tree; its id is Len(t.tag) + 1
CreateElement(t, tg) ==
    [tag |-> Append(t.tag, tg), text |-> Append(t.text, <<>>),
     kids |-> Append(t.kids, <<>>), parent |-> Append(t.parent, 0),
     open |-> Append(t.open, FALSE)]

\* node.remove()
Remove(t, n) ==
    IF t.parent[n] = 0 THEN t
    ELSE [t EXCEPT !.kids[t.parent[n]] = Without(@, n), !.parent[n] = 0]

\* mutant: the original header is left in the tree
RemoveHeader_Kept(t, h) == t

\* header.remove(); // Remove original header
RemoveHeader(t, h) == Remove(t, h)

\* p.appendChild(n): n leaves its present parent and becomes the last child of p
AppendChild(t, p, n) ==
    LET u == Remove(t, n)
    IN  [u EXCEPT !.kids[p] = Append(@, n), !.parent[n] = p]

\* mutant: the node is appended to p instead
InsertBefore_AtEnd(t, p, n, ref) == AppendChild(t, p, n)

\* p.insertBefore(n, ref)
InsertBefore(t, p, n, ref) ==
    LET u  == Remove(t, n)
        ks == u.kids[p]
        k  == IndexOf(ks, ref)
    IN  [u EXCEPT !.kids[p] = SubSeq(ks, 1, k - 1) \o <<n>> \o SubSeq(ks, k, Len(ks)),
                  !.parent[n] = p]

\* mutant: the nodes are moved last one first
RECURSIVE AppendAll_Reversed(_, _, _)
AppendAll_Reversed(t, p, nodes) ==
    IF nodes = <<>> THEN t
    ELSE AppendChild(AppendAll_Reversed(t, p, Tail(nodes)), p, Head(nodes))

\* nodesToMove.forEach(node => wrapper.appendChild(node))
RECURSIVE AppendAll(_, _, _)
AppendAll(t, p, nodes) ==
    IF nodes = <<>> THEN t
    ELSE AppendAll(AppendChild(t, p, Head(nodes)), p, Tail(nodes))

\* the descendants of n in document order, n first
RECURSIVE Desc(_, _)
RECURSIVE DescSeq(_, _)
Desc(t, n) == <<n>> \o DescSeq(t, t.kids[n])
DescSeq(t, ks) ==
    IF ks = <<>> THEN <<>> ELSE Desc(t, Head(ks)) \o DescSeq(t, Tail(ks))

\* contentContainer.querySelectorAll('h2, h3')
QueryH2H3(t) == SelectSeq(DescSeq(t, t.kids[1]), LAMBDA n : t.tag[n] \in {"h2", "h3"})

\* n.closest('details') is not null
RECURSIVE ClosestDetails(_, _)
ClosestDetails(t, n) ==
    IF n = 0 THEN FALSE
    ELSE t.tag[n] = "details" \/ ClosestDetails(t, t.parent[n])

\* mutant: headings with an excluded title are converted as well
Headers_WithExcluded(t) ==
    SelectSeq(QueryH2H3(t), LAMBDA h : ~ClosestDetails(t, h))

\* const headers = Array.from(...).filter(...)
Headers(t) ==
    SelectSeq(QueryH2H3(t),
              LAMBDA h : ~ClosestDetails(t, h) /\ ~IsExcludedText(t.text[h]))

\* nodeType === 1 && /^H[1-6]$/.test(tagName)
IsHeading(t, n) == t.tag[n] \in {"h1", "h2", "h3", "h4", "h5", "h6"}

\* parseInt(tagName.substring(1))
Level(tg) ==
    CASE tg = "h1" -> 1 [] tg = "h2" -> 2 [] tg = "h3" -> 3
      [] tg = "h4" -> 4 [] tg = "h5" -> 5 [] tg = "h6" -> 6

\* mutant: only a heading of strictly higher importance stops the scan
StopsScan_Strict(t, n, currentLevel) ==
    IsHeading(t, n) /\ Level(t.tag[n]) < currentLevel

\* if (... nextLevel <= currentLevel) break
StopsScan(t, n, currentLevel) ==
    IsHeading(t, n) /\ Level(t.tag[n]) <= currentLevel

\* mutant: the scan walks nextElementSibling and so misses text nodes
Following_Elements(t, h) ==
    LET ks == t.kids[t.parent[h]]
    IN  SelectSeq(SubSeq(ks, IndexOf(ks, h) + 1, Len(ks)), LAMBDA n : t.tag[n] # "#text")

\* header.nextSibling, .nextSibling, ... to the end of the parent
Following(t, h) ==
    LET ks == t.kids[t.parent[h]]
    IN  SubSeq(ks, IndexOf(ks, h) + 1, Len(ks))

\* the while loop: nodesToMove
RECURSIVE Collect(_, _, _)
Collect(t, sibs, currentLevel) ==
    IF sibs = <<>> \/ StopsScan(t, Head(sibs), currentLevel) THEN <<>>
    ELSE <<Head(sibs)>> \o Collect(t, Tail(sibs), currentLevel)

\* the sibling at which the while loop broke (0: it ran to the end)
ScanStop(t, sibs, currentLevel) ==
    LET n == Len(Collect(t, sibs, currentLevel))
    IN  IF n < Len(sibs) THEN sibs[n + 1] ELSE 0

\* mutant: firstSection is never cleared
FirstAfter_Kept(first) == first

\* firstSection after an iteration of the forEach
FirstAfter(first) == FALSE

\* one iteration of headers.forEach; st = [t, first, made, stops]
FoldHeader(st, h) ==
    LET t   == st.t
        d   == Len(t.tag) + 1          \* details
        sm  == d + 1                   \* summary
        w   == d + 2                   \* wrapper div
        t1  == [CreateElement(t, "details") EXCEPT !.open[d] = st.first]
        t2  == [CreateElement(t1, "summary") EXCEPT !.text[sm] = t.text[h]]
        t3  == AppendChild(t2, d, sm)
        t4  == AppendChild(CreateElement(t3, "div"), d, w)
        lvl == Level(t.tag[h])
        nodesToMove == Collect(t, Following(t, h), lvl)
        t5  == InsertBefore(t4, t4.parent[h], d, h)
        t6  == RemoveHeader(t5, h)
        t7  == AppendAll(t6, w, nodesToMove)
    IN  [t     |-> t7,
         first |-> FirstAfter(st.first),
         made  |-> st.made @@ (h :> d),
         stops |-> st.stops @@ (h :> ScanStop(t, Following(t, h), lvl))]

RECURSIVE FoldAll(_, _)
FoldAll(st, hs) ==
    IF hs = <<>> THEN st ELSE FoldAll(FoldHeader(st, Head(hs)), Tail(hs))

\* setupCollapsibleSections(), the whole method
FoldRegion ==
    /\ runs < MaxRuns
    /\ \E hs \in {IF tag = <<>> THEN <<>> ELSE Headers(Tree)} :
       \E r \in {FoldAll([t |-> Tree, first |-> TRUE, made |-> <<>>, stops |-> <<>>], hs)} :
           /\ tag' = r.t.tag
           /\ text' = r.t.text
           /\ kids' = r.t.kids
           /\ parent' = r.t.parent
           /\ isOpen' = r.t.open
           /\ before' = Tree
           /\ hdrs' = hs
           /\ made' = r.made
           /\ stops' = r.stops
    /\ runs' = runs + 1

\* a call of setupCollapsibleSections() on a page set up before
SetupCollapsibleSections ==
    /\ FoldRegion
    /\ UNCHANGED <<vvars, mvars, tvars, ivars, wvars, dvars>>

----------------------------------------------------------------------------
(* The project descriptions explored *)

\* what a child of the container can be: headings (h2x, h3x: with an excluded
\* title), a text node, a div holding headings, a details element already
\* present in the markup
Kinds == {"h1", "h2", "h3", "h2x", "h3x", "#text", "div", "details"}
DivContent     == <<"h3", "#text", "h2">>
DetailsContent == <<"summary", "h3", "#text">>

Titles ==
    << <<"D", "e", "s", "i", "g", "n">>,
       <<"O", "v", "e", "r", " ", "v", "i", "e", "w">>,
       <<" ", "W", "i", "r", "i", "n", "g", " ">>,
       <<"R", "e", "s", "u", "l", "t", "s">>,
       <<"D", "e", "s", "c", "r", "i", "p", "t", "i", "o", "n", "s">> >>
TitlesExcluded ==
    << <<"d", "e", "s", "c", "r", "i", "p", "t", "i", "o", "n">>,
       <<" ", "I", "N", "T", "R", "O", "D", "U", "C", "T", "I", "O", "N", "\n">>,
       <<"O", "v", "e", "r", "v", "i", "e", "w">>,
       <<"\t", "o", "v", "e", "r", "V", "I", "E", "W", " ">> >>

\* the text of the node with identity id of kind k: titles rotate with the id
TextOf(k, id) ==
    IF k \in {"h2x", "h3x"} THEN TitlesExcluded[(id % Len(TitlesExcluded)) + 1]
    ELSE IF k \in {"h1", "h2", "h3"} THEN Titles[(id % Len(Titles)) + 1]
    ELSE IF k \in {"#text", "summary"} THEN <<"t">>
    ELSE <<>>
TagOf(k) == IF k = "h2x" THEN "h2" ELSE IF k = "h3x" THEN "h3" ELSE k

NewNode(t, k, par) ==
    LET id == Len(t.tag) + 1
    IN  [tag    |-> Append(t.tag, TagOf(k)),
         text   |-> Append(t.text, TextOf(k, id)),
         kids   |-> IF par = 0 THEN Append(t.kids, <<>>)
                    ELSE Append([t.kids EXCEPT ![par] = Append(@, id)], <<>>),
         parent |-> Append(t.parent, par),
         open   |-> Append(t.open, k = "details")]

RECURSIVE BuildSeq(_, _, _)
BuildSeq(t, par, items) ==
    IF items = <<>> THEN t
    ELSE LET id == Len(t.tag) + 1
             k  == Head(items)
             t1 == NewNode(t, k, par)
             t2 == IF k = "div" THEN BuildSeq(t1, id, DivContent)
                   ELSE IF k = "details" THEN BuildSeq(t1, id, DetailsContent)
                   ELSE t1
         IN  BuildSeq(t2, par, Tail(items))

\* the container (node 1) with the given children
BuildTree(items) == BuildSeq(NewNode(NoTree, "container", 0), 1, items)

Inputs == UNION {[1..n -> Kinds] : n \in 0..MaxLen}

InitFolder ==
    /\ \E t \in {BuildTree(items) : items \in Inputs} \cup {NoTree} :
        /\ tag = t.tag /\ text = t.text /\ kids = t.kids
        /\ parent = t.parent /\ isOpen = t.open
    /\ runs = 0
    /\ before = NoTree /\ hdrs = <<>> /\ made = <<>> /\ stops = <<>>

\* a project page without zoomable images
InitFolderPage == InitViewport({}) /\ InitFolder /\ InitModels({}) /\ InitNoTabs
                  /\ InitReturned /\ InitNoTwin /\ InitNoDouble

NextFolder == SetupCollapsibleSections

SpecFolder == InitFolderPage /\ [][NextFolder]_vars

----------------------------------------------------------------------------
(* init(): the constructor calls the five setup methods one after the other. *)
(* The page explored has a project description and gallery images, and no   *)
(* model-viewer, schematic image or tab button, so the first three methods  *)
(* loop over empty node lists.                                              *)

MaxInitLen == 2     \* child nodes of the description on the page being set up

\* what the page's scripts left in the global mediumZoom: nothing, the
\* library's function, or a value whose call throws (a library that rejects
\* the call, or a global of that name that is not a function)
ZoomGlobals == {"undefined", "function", "throws"}

\* no try / catch in setupImageZoom, init, the constructor or the
\* DOMContentLoaded listener: the exception ends init()
AfterThrow(next) == "thrown"

\* this.setupModelViewers(): querySelectorAll('model-viewer') is empty
InitSetupModelViewers ==
    /\ pc = "setupModelViewers"
    /\ mods = {}
    /\ pc' = "setupSchematicZoom"
    /\ UNCHANGED <<mediumZoom, vvars, fvars, mvars, tvars, wvars, dvars>>

\* this.setupSchematicZoom(): no .schematic-image[data-zoomable]
InitSetupSchematicZoom ==
    /\ pc = "setupSchematicZoom"
    /\ imgs = {}
    /\ pc' = "setupCodeTabs"
    /\ UNCHANGED <<mediumZoom, vvars, fvars, mvars, tvars, wvars, dvars>>

\* this.setupCodeTabs(): no .tab-button
InitSetupCodeTabs ==
    /\ pc = "setupCodeTabs"
    /\ tabButtons = <<>>
    /\ pc' = "setupImageZoom"
    /\ UNCHANGED <<mediumZoom, vvars, fvars, mvars, tvars, wvars, dvars>>

\* this.setupImageZoom(): if (typeof mediumZoom !== 'undefined') mediumZoom(...)
InitSetupImageZoom ==
    /\ pc = "setupImageZoom"
    /\ pc' = IF mediumZoom = "throws" THEN AfterThrow("setupCollapsibleSections")
             ELSE "setupCollapsibleSections"
    /\ UNCHANGED <<mediumZoom, vvars, fvars, mvars, tvars, wvars, dvars>>

\* this.setupCollapsibleSections(), after which init() returns
InitSetupCollapsibleSections ==
    /\ pc = "setupCollapsibleSections"
    /\ FoldRegion
    /\ pc' = "returned"
    /\ UNCHANGED <<mediumZoom, vvars, mvars, tvars, wvars, dvars>>

InitInputs == UNION {[1..n -> Kinds] : n \in 0..MaxInitLen}

\* DOMContentLoaded: new ProjectViewer() is about to call init()
InitConstructing ==
    /\ InitViewport({}) /\ InitModels({}) /\ InitNoTabs /\ InitNoTwin /\ InitNoDouble
    /\ \E t \in {BuildTree(items) : items \in InitInputs} :
        /\ tag = t.tag /\ text = t.text /\ kids = t.kids
        /\ parent = t.parent /\ isOpen = t.open
    /\ runs = 0
    /\ before = NoTree /\ hdrs = <<>> /\ made = <<>> /\ stops = <<>>
    /\ pc = "setupModelViewers"
    /\ mediumZoom \in ZoomGlobals

NextInit ==
    \/ InitSetupModelViewers
    \/ InitSetupSchematicZoom
    \/ InitSetupCodeTabs
    \/ InitSetupImageZoom
    \/ InitSetupCollapsibleSections

SpecInit == InitConstructing /\ [][NextInit]_vars

----------------------------------------------------------------------------
(* Properties of setupCollapsibleSections.  They are stated on the tree     *)
(* after a run against `before`, the tree the run began with.               *)

HeadingTags == {"h1", "h2", "h3", "h4", "h5", "h6"}
MinOf(S) == CHOOSE k \in S : \A j \in S : k <= j

\* the nodes of the region before the run, in document order
RegionBefore == IF before.tag = <<>> THEN <<>> ELSE DescSeq(before, before.kids[1])
RECURSIVE UnderContainerBefore(_)
UnderContainerBefore(n) ==
    before.parent[n] # 0 /\ (before.parent[n] = 1 \/ UnderContainerBefore(before.parent[n]))
InRegionBefore(n) == UnderContainerBefore(n)

\* a heading with an excluded title (trimmed, case-folded)
ExcludedBefore(n) ==
    /\ before.tag[n] \in {"h2", "h3"}
    /\ ToLowerCase(Trim(before.text[n])) \in ExcludedTitles
\* the qualifying headings: h2/h3, title not excluded, inside no details element
Qualifying ==
    {n \in 1..Len(before.tag) :
        /\ InRegionBefore(n)
        /\ before.tag[n] \in {"h2", "h3"}
        /\ ~ExcludedBefore(n)
        /\ ~ClosestDetails(before, n)}

\* the siblings that followed h before the run, and where its section must end
FollowedBy(h) ==
    LET ks == before.kids[before.parent[h]]
    IN  SubSeq(ks, IndexOf(ks, h) + 1, Len(ks))
EndsAt(h) ==
    LET f == FollowedBy(h)
        S == {k \in 1..Len(f) :
                 /\ before.tag[f[k]] \in HeadingTags
                 /\ Level(before.tag[f[k]]) <= Level(before.tag[h])}
    IN  IF S = {} THEN Len(f) + 1 ELSE MinOf(S)
BodyWanted(h) == SubSeq(FollowedBy(h), 1, EndsAt(h) - 1)
StopWanted(h) ==
    IF EndsAt(h) > Len(FollowedBy(h)) THEN 0 ELSE FollowedBy(h)[EndsAt(h)]

\* the widgets the run produced
IsProduced(d) == d > Len(before.tag) /\ tag[d] = "details"
Produced == {d \in 1..Len(tag) : IsProduced(d)}
HeaderOf(d) == CHOOSE h \in DOMAIN made : made[h] = d
Rep(n) == IF n \in DOMAIN made THEN made[n] ELSE n
SummaryOf(d) == kids[d][1]
BodyOf(d) == kids[d][2]

RECURSIVE IsInside(_, _)
IsInside(n, d) ==
    IF parent[n] = 0 THEN FALSE ELSE parent[n] = d \/ IsInside(parent[n], d)
Attached(n) == n = 1 \/ IsInside(n, 1)

\* a body read back as original nodes: a produced widget stands for its heading
\* followed by its own body
RECURSIVE Unfold(_)
Unfold(ns) ==
    IF ns = <<>> THEN <<>>
    ELSE LET n == Head(ns)
         IN  (IF IsProduced(n) THEN <<HeaderOf(n)>> \o Unfold(kids[BodyOf(n)])
              ELSE <<n>>) \o Unfold(Tail(ns))

RanOnce == runs = 1 /\ before.tag # <<>>

\* C6: after a run every qualifying heading is out of the tree and a details
\* widget stands for it: its summary carries the heading's text and its body
\* holds exactly the siblings that followed the heading up to, not including,
\* the next sibling heading of level <= its own (or to the end of the parent),
\* nested widgets read as the headings and nodes they hold.
C6_HeadingsFolded ==
    RanOnce =>
        \A h \in Qualifying :
            /\ h \in DOMAIN made
            /\ ~Attached(h)
            /\ \A p \in 1..Len(tag) : \A k \in 1..Len(kids[p]) : kids[p][k] # h
            /\ LET d == made[h] IN
                /\ IsProduced(d) /\ Attached(d)
                /\ Len(kids[d]) = 2
                /\ tag[SummaryOf(d)] = "summary"
                /\ text[SummaryOf(d)] = before.text[h]
                /\ Unfold(kids[BodyOf(d)]) = BodyWanted(h)
\* a heading that ran to the end of its parent and holds a nested section, with
\* a second heading that was stopped by a sibling heading
C6_Witness ==
    /\ RanOnce
    /\ \E h \in Qualifying, g \in Qualifying :
        /\ StopWanted(h) = 0 /\ Len(BodyWanted(h)) >= 2
        /\ \E k \in 1..Len(BodyWanted(h)) : BodyWanted(h)[k] \in Qualifying
        /\ StopWanted(g) # 0 /\ BodyWanted(g) # <<>>

\* the region is a flat sequence of h2/h3 headings (text nodes between them allowed)
FlatH2H3 ==
    /\ before.tag # <<>>
    /\ \A k \in 1..Len(before.kids[1]) : before.tag[before.kids[1][k]] \in {"h2", "h3", "#text"}
TopBefore(n) == \E k \in 1..Len(before.kids[1]) : before.kids[1][k] = n
Pos(n) == IndexOf(before.kids[1], n)

\* C7: on a flat sequence of h2/h3 headings there is exactly one section per
\* non-excluded heading; an h3 after a non-excluded h2, with no heading of level
\* <= 2 between them, lies inside that h2's section; every section made from an
\* h2 is a child of the container; every excluded heading is still a heading
\* with its text, in the tree, and was not converted.
C7_FlatNesting ==
    (RanOnce /\ FlatH2H3) =>
        LET heads == {n \in 1..Len(before.tag) : TopBefore(n) /\ before.tag[n] \in {"h2", "h3"}}
            plain == {n \in heads : ~ExcludedBefore(n)}
        IN  /\ DOMAIN made = plain
            /\ \A a \in plain, b \in plain : made[a] = made[b] => a = b
            /\ {d \in 1..Len(tag) : tag[d] = "details"} = {made[h] : h \in plain}
            /\ \A a \in plain, c \in heads :
                  ( /\ before.tag[a] = "h2" /\ before.tag[c] = "h3" /\ Pos(a) < Pos(c)
                    /\ \A m \in heads : (Pos(a) < Pos(m) /\ Pos(m) < Pos(c))
                                            => before.tag[m] = "h3" )
                  => IsInside(Rep(c), made[a])
            /\ \A a \in plain : before.tag[a] = "h2" => parent[made[a]] = 1
            /\ \A x \in heads \ plain :
                  /\ tag[x] = before.tag[x] /\ text[x] = before.text[x]
                  /\ x \notin DOMAIN made /\ Attached(x)
\* the sequence [h2 Overview, h2, h3, h2]: two top-level sections, the h3 nested
\* in the first, Overview untouched
C7_Witness ==
    /\ RanOnce /\ FlatH2H3
    /\ [k \in 1..Len(before.kids[1]) |-> before.tag[before.kids[1][k]]] = <<"h2", "h2", "h3", "h2">>
    /\ before.text[2] = <<"O", "v", "e", "r", "v", "i", "e", "w">>
    /\ Qualifying = {3, 4, 5}
    /\ kids[1] = <<2, made[3], made[5]>>
    /\ kids[BodyOf(made[3])] = <<made[4]>>

\* C8: a second run on the result of the first creates no widget and leaves
\* the tree as it was.
C8_SecondRunIdle ==
    runs = 2 => (Tree = before /\ hdrs = <<>> /\ made = <<>>)
\* a second run over a tree that holds a produced section nested in another
\* and a heading left unconverted
C8_Witness ==
    /\ runs = 2 /\ before.tag # <<>>
    /\ \E d \in 1..Len(tag), e \in 1..Len(tag) :
        /\ tag[d] = "details" /\ tag[e] = "details"
        /\ tag[BodyOf(d)] = "div" /\ parent[e] = BodyOf(d)
    /\ \E x \in 1..Len(tag) : tag[x] \in {"h2", "h3"} /\ parent[x] = 1

\* C9: after one run over a region with a qualifying heading exactly one
\* produced section is open: the one made from the first qualifying heading in
\* document order, which lies inside no other produced section.
C9_FirstOpen ==
    (RanOnce /\ Qualifying # {}) =>
        LET region == RegionBefore
            qual   == Qualifying
            k0     == MinOf({k \in 1..Len(region) : region[k] \in qual})
            first  == region[k0]
        IN  /\ first \in DOMAIN made
            /\ {d \in Produced : isOpen[d]} = {made[first]}
            /\ \A e \in Produced : ~IsInside(made[first], e)
\* excluded headings come first, three sections are produced, one nested
C9_Witness ==
    /\ RanOnce /\ Cardinality(Qualifying) >= 3
    /\ ExcludedBefore(RegionBefore[1])
    /\ \E d \in Produced, e \in Produced : IsInside(e, d)
    /\ Cardinality({d \in Produced : ~isOpen[d]}) >= 2

\* C10: no direct child of a section's body is (or was made from) a heading of
\* level <= the level of the section's heading; the sibling that stopped the
\* scan is not in the section: it, or the widget made from it, is the next
\* sibling of the section's widget.
C10_BodyLevels ==
    RanOnce =>
        \A h \in DOMAIN made :
            LET d == made[h] IN
            /\ \A k \in 1..Len(kids[BodyOf(d)]) :
                  LET n == kids[BodyOf(d)][k]
                      o == IF IsProduced(n) THEN HeaderOf(n) ELSE n
                  IN  ~(before.tag[o] \in HeadingTags
                        /\ Level(before.tag[o]) <= Level(before.tag[h]))
            /\ StopWanted(h) # 0 => ~IsInside(Rep(StopWanted(h)), d)
            /\ stops[h] # 0 =>
                  LET ks == kids[parent[d]]
                  IN  /\ IndexOf(ks, d) < Len(ks)
                      /\ ks[IndexOf(ks, d) + 1] = Rep(stops[h])
\* a section stopped by an excluded heading of its own level, another by a
\* heading that was then converted itself
C10_Witness ==
    /\ RanOnce
    /\ \E h \in DOMAIN made, g \in DOMAIN made :
        /\ stops[h] # 0 /\ ExcludedBefore(stops[h])
        /\ before.tag[stops[h]] = before.tag[h]
        /\ kids[BodyOf(made[h])] # <<>>
        /\ stops[g] # 0 /\ stops[g] \in DOMAIN made

\* n is a produced section or lies inside one
InSection(n) == IsProduced(n) \/ \E d \in Produced : IsInside(n, d)

\* the produced sections among the children of p that come before position k
SectionsBefore(p, k) == {j \in 1..(k - 1) : IsProduced(kids[p][j])}
MaxOf(S) == CHOOSE k \in S : \A j \in S : j <= k

\* C32 as stated: the sibling heading that ended a section's content was itself
\* converted into a section, and every node that follows a produced section
\* among its siblings is a section or lies inside one.
C32_StopStartsSection ==
    RanOnce =>
        /\ \A h \in DOMAIN made : stops[h] # 0 => stops[h] \in DOMAIN made
        /\ \A p \in 1..Len(tag) : \A k \in 1..Len(kids[p]) :
              (Attached(p) /\ SectionsBefore(p, k) # {}) => InSection(kids[p][k])

\* C32 amended: the sibling heading that ended a section's content was
\* converted exactly when it is a qualifying heading (h2 or h3, title not
\* excluded); a node that follows a produced section among its siblings and is
\* in no section is, or comes after, a heading left unconverted (an h1 or an
\* excluded title) that ended the section before it.
C32_StopStartsSectionIfQualifying ==
    RanOnce =>
        /\ \A h \in DOMAIN made :
              stops[h] # 0 => (stops[h] \in DOMAIN made <=> stops[h] \in Qualifying)
        /\ \A p \in 1..Len(tag) : \A k \in 1..Len(kids[p]) :
              (Attached(p) /\ SectionsBefore(p, k) # {} /\ ~InSection(kids[p][k])) =>
                  LET j == MaxOf(SectionsBefore(p, k))
                      x == kids[p][j + 1]
                  IN  /\ x = stops[HeaderOf(kids[p][j])]
                      /\ x \notin Qualifying
                      /\ before.tag[x] = "h1" \/ ExcludedBefore(x)
                      /\ tag[x] = before.tag[x] /\ text[x] = before.text[x]
\* a section ended by an h1 and another ended by an excluded title: both
\* headings are still in the container, after a section and in no section
C32_Witness ==
    /\ RanOnce
    /\ \E h \in DOMAIN made, g \in DOMAIN made :
        /\ stops[h] # 0 /\ before.tag[stops[h]] = "h1"
        /\ stops[g] # 0 /\ ExcludedBefore(stops[g])
        /\ parent[stops[h]] = 1 /\ parent[stops[g]] = 1
        /\ ~InSection(stops[h]) /\ ~InSection(stops[g])

\* the places (parent, position) at which n is a child in the tree after the run
PlacesOf(n) ==
    UNION {{<<p, k>> : k \in {j \in 1..Len(kids[p]) : kids[p][j] = n}} : p \in 1..Len(tag)}

\* the tree after the run read depth-first as original nodes: a produced widget
\* reads as the heading it was made from, followed by what its body holds
RECURSIVE ReadNode(_)
RECURSIVE ReadSeq(_)
ReadNode(n) ==
    IF IsProduced(n) THEN <<HeaderOf(n)>> \o ReadSeq(kids[BodyOf(n)])
    ELSE <<n>> \o ReadSeq(kids[n])
ReadSeq(ns) == IF ns = <<>> THEN <<>> ELSE ReadNode(Head(ns)) \o ReadSeq(Tail(ns))

\* C33: after a run every node of the region other than the converted headings
\* is in the tree exactly once, with the tag, text and open flag it had, and
\* the depth-first reading of the result, each widget standing for its
\* heading, is the document order of the region before the run.
C33_NodesKept ==
    RanOnce =>
        /\ \A n \in 1..Len(before.tag) :
              (InRegionBefore(n) /\ n \notin DOMAIN made) =>
                  /\ Attached(n)
                  /\ Cardinality(PlacesOf(n)) = 1
                  /\ tag[n] = before.tag[n]
                  /\ text[n] = before.text[n]
                  /\ isOpen[n] = before.open[n]
        /\ ReadSeq(kids[1]) = RegionBefore
\* a section that took two or more nodes, one of them a nested section, in a
\* region that also holds a div with headings of its own
C33_Witness ==
    /\ RanOnce
    /\ \E d \in Produced, e \in Produced :
        /\ Len(kids[BodyOf(d)]) >= 2
        /\ parent[e] = BodyOf(d)
    /\ \E x \in 1..Len(before.tag) : before.tag[x] = "div" /\ Attached(x)

\* the pure parse of a sequence of sibling nodes of the tree before the run: a
\* qualifying heading takes the nodes after it up to the next heading of level
\* <= its own, and what it takes is parsed in the same way
RECURSIVE ParseSeq(_)
ParseSeq(ns) ==
    IF ns = <<>> THEN <<>>
    ELSE LET n == Head(ns) IN
         IF n \in Qualifying
         THEN LET S == {k \in 2..Len(ns) :
                           /\ before.tag[ns[k]] \in HeadingTags
                           /\ Level(before.tag[ns[k]]) <= Level(before.tag[n])}
                  e == IF S = {} THEN Len(ns) + 1 ELSE MinOf(S)
              IN  <<[heading |-> n, body |-> ParseSeq(SubSeq(ns, 2, e - 1))]>>
                      \o ParseSeq(SubSeq(ns, e, Len(ns)))
         ELSE <<[heading |-> 0, body |-> <<n>>]>> \o ParseSeq(Tail(ns))

\* the same structure read from the tree after the run
RECURSIVE ShapeSeq(_)
ShapeSeq(ns) ==
    IF ns = <<>> THEN <<>>
    ELSE LET n == Head(ns) IN
         (IF IsProduced(n)
          THEN <<[heading |-> HeaderOf(n), body |-> ShapeSeq(kids[BodyOf(n)])]>>
          ELSE <<[heading |-> 0, body |-> <<n>>]>>) \o ShapeSeq(Tail(ns))

\* C34: under every node of the region that had children before the run, the
\* children after the run are the pure parse of the children before it: each
\* qualifying heading, also one that was moved into another section's body
\* before its turn, holds exactly the nodes that followed it up to the next
\* heading of level <= its own.
C34_SameAsPureParse ==
    RanOnce =>
        \A p \in 1..Len(before.tag) :
            (p = 1 \/ InRegionBefore(p)) => ShapeSeq(kids[p]) = ParseSeq(before.kids[p])
\* an h3 that the h2 before it had already moved into its body when its turn
\* came: the scan of the h3 ran to the end of that body, while in the original
\* sequence a heading ended it
C34_Witness ==
    /\ RanOnce
    /\ \E h \in DOMAIN made, g \in DOMAIN made :
        /\ parent[made[h]] = BodyOf(made[g])
        /\ before.parent[h] = before.parent[g]
        /\ StopWanted(h) # 0 /\ stops[h] = 0
        /\ kids[BodyOf(made[h])] # <<>>

\* C35 as stated: no exception leaves init(), and when init() is over every
\* setup method after a failing one has run: the description's sections are
\* folded.
C35_FailureStaysLocal ==
    /\ pc # "thrown"
    /\ pc \in {"returned", "thrown"} => runs = 1

----------------------------------------------------------------------------
(* The scale as the binary64 double of the source.  Scales are small and    *)
(* positive here (0.5 to 5), so a double is a significand m with            *)
(* 2^52 <= m < 2^53 and an exponent e, of value m * 2^e; products and       *)
(* quotients are rounded to nearest, ties to even.                          *)

\* An integer is a little-endian sequence of limbs of LimbBits bits; the limbs
\* are this narrow so that a column of limb products stays below 2^31.
LimbBits == 2 * 7
LimbBase == 2^LimbBits
\* the significand of a binary64: 52 stored bits and the leading one
MantBits == 52 + 1

\* limb j of a (little-endian), 0 beyond its length
Limb(a, j) == IF j \in 1..Len(a) THEN a[j] ELSE 0

\* bit i of a, bit 0 the lowest
Bit(a, i) == (Limb(a, (i \div LimbBits) + 1) \div 2^(i % LimbBits)) % 2
\* some bit of a below bit i is set
AnyBelow(a, i) ==
    \/ \E j \in 1..(i \div LimbBits) : Limb(a, j) # 0
    \/ Limb(a, (i \div LimbBits) + 1) % 2^(i % LimbBits) # 0

\* the product of two integers
RECURSIVE ColSum(_, _, _, _)
ColSum(a, b, k, i) ==
    IF i > Len(a) THEN 0
    ELSE (IF k - i + 1 \in 1..Len(b) THEN a[i] * b[k - i + 1] ELSE 0) + ColSum(a, b, k, i + 1)
RECURSIVE MulFrom(_, _, _, _)
MulFrom(a, b, k, carry) ==
    IF k > Len(a) + Len(b) THEN <<>>
    ELSE LET s == carry + ColSum(a, b, k, 1)
         IN  <<s % LimbBase>> \o MulFrom(a, b, k + 1, s \div LimbBase)
BMul(a, b) == MulFrom(a, b, 1, 0)

\* a >= b, a - b, 2a, a + 1 for integers of the same number of limbs
RECURSIVE BGeFrom(_, _, _)
BGeFrom(a, b, j) ==
    IF j = 0 THEN TRUE
    ELSE IF a[j] # b[j] THEN a[j] > b[j] ELSE BGeFrom(a, b, j - 1)
BGe(a, b) == BGeFrom(a, b, Len(a))
RECURSIVE BSubFrom(_, _, _, _)
BSubFrom(a, b, j, borrow) ==
    IF j > Len(a) THEN <<>>
    ELSE LET d == a[j] - b[j] - borrow
         IN  <<d % LimbBase>> \o BSubFrom(a, b, j + 1, IF d < 0 THEN 1 ELSE 0)
BSub(a, b) == BSubFrom(a, b, 1, 0)
RECURSIVE BAddSmallFrom(_, _, _)
BAddSmallFrom(a, j, carry) ==
    IF j > Len(a) THEN <<>>
    ELSE LET s == a[j] + carry
         IN  <<s % LimbBase>> \o BAddSmallFrom(a, j + 1, s \div LimbBase)
RECURSIVE BDoubleFrom(_, _, _)
BDoubleFrom(a, j, carry) ==
    IF j > Len(a) THEN <<carry>>
    ELSE LET s == 2 * a[j] + carry
         IN  <<s % LimbBase>> \o BDoubleFrom(a, j + 1, s \div LimbBase)
BDouble(a) == BDoubleFrom(a, 1, 0)
BInc(a) == BAddSmallFrom(a, 1, 1)
BZero(n) == [j \in 1..n |-> 0]

\* a shifted right by sh bits, as n limbs
Shr(a, sh, n) ==
    LET q == sh \div LimbBits
        r == sh % LimbBits
    IN  [j \in 1..n |-> (Limb(a, q + j) \div 2^r) + (Limb(a, q + j + 1) % 2^r) * 2^(LimbBits - r)]

\* a double: the value m * 2^e with 2^52 <= m < 2^53 (m as four limbs)
MantLimbs == (MantBits + LimbBits - 1) \div LimbBits
TopMin == 2^(MantBits - 1 - (MantLimbs - 1) * LimbBits)
Pack(q, e) ==
    IF q[MantLimbs] >= 2 * TopMin
    THEN [m |-> [j \in 1..MantLimbs |-> IF j = MantLimbs THEN TopMin ELSE 0], e |-> e + 1]
    ELSE [m |-> q, e |-> e]

\* mutant: the bits shifted out are dropped (round toward zero)
RoundShift_Truncate(a, sh, sticky) == Shr(a, sh, MantLimbs)

\* round to nearest, ties to even: a / 2^sh as a mantissa; sticky says that
\* bits below a were lost already
RoundShift(a, sh, sticky) ==
    LET q  == Shr(a, sh, MantLimbs)
        up == /\ Bit(a, sh - 1) = 1
              /\ sticky \/ AnyBelow(a, sh - 1) \/ q[1] % 2 = 1
    IN  IF up THEN BInc(q) ELSE q

\* x * y
DMul(x, y) ==
    LET p  == BMul(x.m, y.m)
        sh == IF Bit(p, 2 * MantBits - 1) = 1 THEN MantBits ELSE MantBits - 1
    IN  Pack(RoundShift(p, sh, FALSE), x.e + y.e + sh)

\* x / y: long division, one quotient bit per step
DivBits == MantBits + 2
RECURSIVE DivSteps(_, _, _)
DivSteps(st, d, n) ==
    IF n = 0 THEN st
    ELSE LET r2 == SubSeq(BDouble(st.r), 1, Len(d))
             q2 == SubSeq(BDouble(st.q), 1, Len(d))
         IN  IF BGe(r2, d)
             THEN DivSteps([q |-> BInc(q2), r |-> BSub(r2, d)], d, n - 1)
             ELSE DivSteps([q |-> q2, r |-> r2], d, n - 1)
DDiv(x, y) ==
    LET d   == y.m \o <<0>>
        r0  == x.m \o <<0>>
        st0 == IF BGe(r0, d) THEN [q |-> BInc(BZero(MantLimbs + 1)), r |-> BSub(r0, d)]
               ELSE [q |-> BZero(MantLimbs + 1), r |-> r0]
        st  == DivSteps(st0, d, DivBits)
        sh  == IF Bit(st.q, DivBits) = 1 THEN 3 ELSE 2
    IN  Pack(RoundShift(st.q, sh, st.r # BZero(MantLimbs + 1)), x.e - y.e - DivBits + sh)

\* x <= y, Math.min, Math.max
DLe(x, y) == x.e < y.e \/ (x.e = y.e /\ BGe(y.m, x.m))
DMin(x, y) == IF DLe(x, y) THEN x ELSE y
DMax(x, y) == IF DLe(x, y) THEN y ELSE x

\* the double of a small positive integer
RECURSIVE Normalized(_, _)
Normalized(top, e) ==
    IF top >= TopMin THEN [m |-> [j \in 1..MantLimbs |-> IF j = MantLimbs THEN top ELSE 0], e |-> e]
    ELSE Normalized(2 * top, e - 1)
FromInt(n) == Normalized(n, -((MantLimbs - 1) * LimbBits))

\* the successor of x among the doubles, and x and y being equal or neighbours
DSucc(x) == Pack(BInc(x.m), x.e)
DNear(x, y) == x = y \/ DSucc(x) = y \/ DSucc(y) = x

\* the literals of initImageZoom: the doubles nearest to the decimals
DOne       == FromInt(1)
DZoomStep  == DDiv(FromInt(12), FromInt(10))     \* 1.2
DWheelUp   == DDiv(FromInt(11), FromInt(10))     \* 1.1
DWheelDown == DDiv(FromInt(9), FromInt(10))      \* 0.9
DMinScale  == DDiv(FromInt(1), FromInt(2))       \* 0.5
DMaxScale  == FromInt(5)                         \* 5

----------------------------------------------------------------------------
(* initImageZoom on one image, scale kept as a double.  pointX, pointY and  *)
(* start stay integers: the pointer positions explored are small integers,  *)
(* and sums and differences of small integers are exact in binary64.        *)

MaxZooms == 3             \* zoom clicks and wheel events handled since the last reset

\* History: the last two events handled, each with the scale it found and
\* whether Math.min or Math.max replaced the scale it computed.
Handled2(h, op, s, clamped) ==
    (IF h = <<>> THEN <<>> ELSE <<h[Len(h)]>>)
        \o <<[op |-> op, from |-> s, clamped |-> clamped]>>

DblCursor(s) == IF DLe(s, DOne) THEN "default" ELSE "grab"

\* the closure after a zoom click or wheel event that computed scale s, and
\* updateImageTransform
DblScaled(op, s, clamped) ==
    [dbl EXCEPT !.scale = s,
                !.transform = <<dbl.pointX, dbl.pointY, s>>,
                !.cursor = DblCursor(s),
                !.zooms = @ + 1,
                !.hist = Handled2(@, op, dbl.scale, clamped)]

DblZoomIn ==
    LET s == DMul(dbl.scale, DZoomStep) IN
    /\ dbl.on
    /\ dbl.zooms < MaxZooms
    /\ dbl' = DblScaled("zoom-in", DMin(s, DMaxScale), ~DLe(s, DMaxScale))
    /\ UNCHANGED <<vvars, fvars, mvars, tvars, ivars, wvars>>

DblZoomOut ==
    LET s == DDiv(dbl.scale, DZoomStep) IN
    /\ dbl.on
    /\ dbl.zooms < MaxZooms
    /\ dbl' = DblScaled("zoom-out", DMax(s, DMinScale), ~DLe(DMinScale, s))
    /\ UNCHANGED <<vvars, fvars, mvars, tvars, ivars, wvars>>

DblReset ==
    /\ dbl.on
    /\ dbl' = [dbl EXCEPT !.scale = DOne, !.pointX = 0, !.pointY = 0,
                          !.transform = <<0, 0, DOne>>,
                          !.cursor = DblCursor(DOne),
                          !.zooms = 0,
                          !.hist = Handled2(@, "reset", dbl.scale, FALSE)]
    /\ UNCHANGED <<vvars, fvars, mvars, tvars, ivars, wvars>>

DblWheel(deltaY) ==
    LET s == DMul(dbl.scale, IF deltaY > 0 THEN DWheelDown ELSE DWheelUp) IN
    /\ dbl.on
    /\ dbl.zooms < MaxZooms
    /\ dbl' = DblScaled("wheel", DMin(DMax(s, DMinScale), DMaxScale),
                        ~DLe(DMinScale, s) \/ ~DLe(s, DMaxScale))
    /\ UNCHANGED <<vvars, fvars, mvars, tvars, ivars, wvars>>

DblMouseDown(x, y) ==
    /\ dbl.on
    /\ dbl' = [dbl EXCEPT !.start = <<x - dbl.pointX, y - dbl.pointY>>,
                          !.panning = TRUE,
                          !.cursor = "grabbing",
                          !.hist = Handled2(@, "mousedown", dbl.scale, FALSE)]
    /\ UNCHANGED <<vvars, fvars, mvars, tvars, ivars, wvars>>

DblMouseMove(x, y) ==
    /\ dbl.on
    /\ dbl.panning
    /\ x - dbl.start[1] \in -MaxOff..MaxOff
    /\ dbl' = [dbl EXCEPT !.pointX = x - dbl.start[1],
                          !.pointY = y - dbl.start[2],
                          !.transform = <<x - dbl.start[1], y - dbl.start[2], dbl.scale>>,
                          !.cursor = DblCursor(dbl.scale),
                          !.hist = Handled2(@, "mousemove", dbl.scale, FALSE)]
    /\ UNCHANGED <<vvars, fvars, mvars, tvars, ivars, wvars>>

DblMouseUp ==
    /\ dbl.on
    /\ dbl.panning
    /\ dbl' = [dbl EXCEPT !.panning = FALSE,
                          !.cursor = DblCursor(dbl.scale),
                          !.hist = Handled2(@, "mouseup", dbl.scale, FALSE)]
    /\ UNCHANGED <<vvars, fvars, mvars, tvars, ivars, wvars>>

InitDouble ==
    dbl = [on |-> TRUE, scale |-> DOne, panning |-> FALSE, pointX |-> 0, pointY |-> 0,
           start |-> <<0, 0>>, transform |-> <<0, 0, DOne>>, cursor |-> "default",
           zooms |-> 0, hist |-> <<>>]

InitDoubles ==
    /\ InitViewport({}) /\ InitModels({}) /\ InitNoTabs /\ InitFolderIdle
    /\ InitReturned /\ InitNoTwin /\ InitDouble

NextDoubles ==
    \/ DblZoomIn
    \/ DblZoomOut
    \/ DblReset
    \/ \E deltaY \in {-1, 1} : DblWheel(deltaY)
    \/ \E pt \in {<<1, 2>>} : DblMouseDown(pt[1], pt[2])
    \/ \E pt \in {<<0, 0>>} : DblMouseMove(pt[1], pt[2])
    \/ DblMouseUp

SpecDoubles == InitDoubles /\ [][NextDoubles]_vars

\* the last two events handled were a zoom-in and a zoom-out click, in either
\* order, and neither computed a scale beyond the range
ZoomPair ==
    /\ dbl.on
    /\ Len(dbl.hist) = 2
    /\ {dbl.hist[1].op, dbl.hist[2].op} = {"zoom-in", "zoom-out"}
    /\ ~dbl.hist[1].clamped /\ ~dbl.hist[2].clamped

\* a zoom click leaves pointX and pointY as they were
ZoomKeepsOffset ==
    (dbl.on /\ dbl'.hist # dbl.hist /\ dbl'.hist[Len(dbl'.hist)].op \in {"zoom-in", "zoom-out"})
        => dbl'.pointX = dbl.pointX /\ dbl'.pointY = dbl.pointY

\* C40 as stated: a zoom-in click followed by a zoom-out click, or the
\* converse, with no clamp engaged, restores scale exactly, and neither click
\* changes the offset.
C40_ZoomExactInverse ==
    /\ [](ZoomPair => dbl.scale = dbl.hist[1].from)
    /\ [][ZoomKeepsOffset]_vars

\* C40, amended: a zoom-in click followed by a zoom-out click, or the
\* converse, with no clamp engaged, restores scale up to the rounding of the
\* product and of the quotient: scale is the double it was or a neighbour of
\* it; neither click changes the offset.
C40_ZoomInverseUpToRounding ==
    /\ [](ZoomPair => DNear(dbl.scale, dbl.hist[1].from))
    /\ [][ZoomKeepsOffset]_vars

\* a zoom-in click followed by a zoom-out click, no clamp engaged, on a panned
\* image: scale came back as a neighbour of the double it was
C40_Witness ==
    /\ ZoomPair
    /\ dbl.hist[1].op = "zoom-in"
    /\ dbl.scale # dbl.hist[1].from
    /\ DNear(dbl.scale, dbl.hist[1].from)
    /\ dbl.pointX # 0

====
